---- MODULE Spec2Model ----
(***************************************************************************)
(* Model of the Gumloop summary parser (api/services/gumloop_parser.py)    *)
(* and of the part of the /summarize handler (api/routers/summarize.py)    *)
(* that consumes it.                                                       *)
(*                                                                         *)
(* A text is a sequence of tokens; the text it stands for is the           *)
(* concatenation of the tokens' characters.  Every string the code         *)
(* searches for (a marker, a section header, the fence, the delimiter)     *)
(* begins at a token boundary in the texts built here, so str.find and     *)
(* the `in` operator are searches over token positions, and slices cut at  *)
(* token boundaries.  Positions are 0-based as in Python.                  *)
(*                                                                         *)
(* Two tokens are written differently from the text they stand for:        *)
(* "'''markdown" stands for the opening fence (three backquotes followed   *)
(* by the word markdown) and "'''" for three backquotes; and the "less     *)
(* than or equal" sign of the TL;DR header is written "<=".                *)
(***************************************************************************)
EXTENDS Integers, Sequences, FiniteSets, TLC

VARIABLES
    content,      \* the argument text of the entry point under check
    fault,        \* the step of the call in which an unexpected exception is raised
    is_gumloop,   \* the flag get_video_data_parallel returns with the transcript
    llm,          \* what langchain_service.summarize_transcript does when called
    pc,           \* which entry point has run: "ready" before any
    ret,          \* what the entry point returned
    breaker,      \* the fields of the CircuitBreaker object, when there is one
    now,          \* datetime.now(), in seconds
    progress,     \* the data of the task's row in the progress table, if any
    quota_tracker \* the fields of the global QuotaTracker, when there is one

vars == <<content, fault, is_gumloop, llm, pc, ret, breaker, now, progress, quota_tracker>>

\* the arguments and the environment of a call: no entry point of the parser
\* or of the router changes them
inputs == <<content, fault, is_gumloop, llm, breaker, now, progress, quota_tracker>>

----------------------------------------------------------------------------
(* Generic helpers over texts.                                             *)

Min(a, b) == IF a <= b THEN a ELSE b

\* F(x), with x evaluated once whatever the number of its uses in F
Let(F(_), x) == CHOOSE r \in {F(v) : v \in {x}} : TRUE

\* the texts of at most n tokens over the vocabulary V
TextsOver(V, n) == UNION {[1..k -> V] : k \in 0..n}

FenceOpen == "'''markdown"
FenceClose == "'''"
Delimiter == "\n---"
TldrHeader == "## TL;DR (<=100 words)"

\* str `pat` occurs in the text of token `tok` (then at its first character)
Hit(tok, pat) ==
    \/ tok = pat
    \/ pat = FenceClose /\ tok = FenceOpen
    \/ pat = "## TL;DR" /\ tok = TldrHeader
    \/ pat = "**Title**" /\ tok = "**Title**: Foo"
    \/ pat = "**Speakers**:"
       /\ tok \in {"**Speakers**: {Alice}, {Bob}", "**Speakers**: {Speaker A}, Carol"}
    \/ pat = "**Synopsis**:" /\ tok = "**Synopsis**: Syn"

\* len(tok): the tokens written differently from their text have its length
TokLen(tok) ==
    CASE tok = TldrHeader -> 21
      [] tok = "When blocked ~> Do ask" -> 21
      [] tok = "- Huge: 999...9" -> 4309
      [] OTHER -> Len(tok)

RECURSIVE StrLen(_)
\* len(text)
StrLen(text) == IF text = <<>> THEN 0 ELSE TokLen(Head(text)) + StrLen(Tail(text))

\* pat in text
Contains(text, pat) == \E i \in 1..Len(text) : Hit(text[i], pat)

\* text.find(pat, from): the first position >= from where pat occurs, or -1
Find(text, pat, from) ==
    LET hits == {i \in from..(Len(text) - 1) : Hit(text[i + 1], pat)}
    IN  IF hits = {} THEN -1 ELSE CHOOSE i \in hits : \A j \in hits : i <= j

\* text[a:b]
Slice(text, a, b) == SubSeq(text, a + 1, b)

IsSpace(tok) == tok \in {" ", "\n"}

RECURSIVE LStrip(_)
LStrip(text) ==
    IF text # <<>> /\ IsSpace(Head(text)) THEN LStrip(Tail(text)) ELSE text

RECURSIVE RStrip(_)
RStrip(text) ==
    IF text # <<>> /\ IsSpace(text[Len(text)])
    THEN RStrip(SubSeq(text, 1, Len(text) - 1))
    ELSE text

\* text.strip()
Strip(text) == RStrip(LStrip(text))

----------------------------------------------------------------------------
(* is_gumloop_summary                                                      *)

MinLength == 100
MinMarkers == 4

gumloop_markers == <<
    "## Video Context", "**Title**", "**Speakers**:", "**Synopsis**:",
    "## TL;DR", TldrHeader, "## Key Moments", "## Strategic Frameworks",
    "## Debunked Assumptions", "## In Practice", "## Playbooks & Heuristics",
    "## Insight Enrichment", "## Accelerated Learning Pack",
    "### Feynman Flashcards", "### Glossary", "### Quick Quiz",
    "### Novel-Idea Meter", "## How to Think Like" >>

\* sum(1 for marker in gumloop_markers if marker in content)
marker_count(c) ==
    Cardinality({m \in 1..Len(gumloop_markers) : Contains(c, gumloop_markers[m])})

\* a faulty variant: the length gate is dropped
is_gumloop_summary_nolen(c) == marker_count(c) >= MinMarkers

\* a faulty variant: the comparison is strict, so four markers are not enough
is_gumloop_summary_strict(c) ==
    IF c = <<>> \/ StrLen(c) < MinLength THEN FALSE ELSE marker_count(c) > MinMarkers

is_gumloop_summary(c) ==
    IF c = <<>> \/ StrLen(c) < MinLength
    THEN FALSE
    ELSE marker_count(c) >= MinMarkers

----------------------------------------------------------------------------
(* _extract_sections                                                       *)

section_headers == <<
    "## Video Context", TldrHeader, "## Key Moments",
    "## Strategic Frameworks", "## Debunked Assumptions", "## In Practice",
    "## Playbooks & Heuristics", "## Insight Enrichment",
    "### Feynman Flashcards", "### Glossary", "### Quick Quiz",
    "### Novel-Idea Meter", "## How to Think Like" >>

\* header.replace('### ', '').replace('## ', '').lower()
clean_header(h) ==
    CASE h = "## Video Context" -> "video context"
      [] h = TldrHeader -> "tl;dr (<=100 words)"
      [] h = "## Key Moments" -> "key moments"
      [] h = "## Strategic Frameworks" -> "strategic frameworks"
      [] h = "## Debunked Assumptions" -> "debunked assumptions"
      [] h = "## In Practice" -> "in practice"
      [] h = "## Playbooks & Heuristics" -> "playbooks & heuristics"
      [] h = "## Insight Enrichment" -> "insight enrichment"
      [] h = "### Feynman Flashcards" -> "feynman flashcards"
      [] h = "### Glossary" -> "glossary"
      [] h = "### Quick Quiz" -> "quick quiz"
      [] h = "### Novel-Idea Meter" -> "novel-idea meter"
      [] h = "## How to Think Like" -> "how to think like"

\* a faulty variant: the payload runs from the fence to the end of the text
markdown_content_unclosed(c) ==
    LET found == Find(c, FenceOpen, 0)
    IN  IF found = -1 THEN c ELSE Slice(c, found + 1, Len(c))

\* the payload: the interior of the first markdown fence, or the whole text
markdown_content(c) ==
    LET found == Find(c, FenceOpen, 0)
    IN  IF found = -1
        THEN c
        ELSE LET markdown_start == found + 1
                 markdown_end == Find(c, FenceClose, markdown_start)
             IN  IF markdown_end = -1
                 THEN Slice(c, markdown_start, Len(c))
                 ELSE Slice(c, markdown_start, markdown_end)

\* the inner loop: the earliest later header after content_start
RECURSIVE next_header_start(_, _, _, _)
next_header_start(md, content_start, from, acc) ==
    IF from > Len(section_headers)
    THEN acc
    ELSE LET next_idx == Find(md, section_headers[from], content_start)
         IN  next_header_start(md, content_start, from + 1,
                               IF next_idx # -1 THEN Min(acc, next_idx) ELSE acc)

\* a faulty variant: every header of the list is a boundary, not only the later ones
section_end_anyheader(md, i, content_start) ==
    LET by_header == next_header_start(md, content_start, 1, Len(md))
        delimiter_idx == Find(md, Delimiter, content_start)
    IN  IF delimiter_idx # -1 THEN Min(by_header, delimiter_idx) ELSE by_header

\* next_section_start of header i, whose content starts at content_start
section_end(md, i, content_start) ==
    LET by_header == next_header_start(md, content_start, i + 1, Len(md))
        delimiter_idx == Find(md, Delimiter, content_start)
    IN  IF delimiter_idx # -1 THEN Min(by_header, delimiter_idx) ELSE by_header

\* a faulty variant: no header ends a section, only a "\n---" does
section_content_unbounded(md, i) ==
    LET content_start == Find(md, section_headers[i], 0) + 1
        delimiter_idx == Find(md, Delimiter, content_start)
    IN  Strip(Slice(md, content_start,
                    IF delimiter_idx # -1 THEN delimiter_idx ELSE Len(md)))

\* the stripped content of header i, which occurs in md
section_content(md, i) ==
    LET start_idx == Find(md, section_headers[i], 0)
        content_start == start_idx + 1
    IN  Strip(Slice(md, content_start, section_end(md, i, content_start)))

\* a faulty variant: an entry for every header of the list, empty when it is absent
section_present_always(md, i) == TRUE

\* `header in markdown_content`
section_present(md, i) == Contains(md, section_headers[i])

_extract_sections(c) ==
    LET md == markdown_content(c)
        present == {i \in 1..Len(section_headers) : section_present(md, i)}
        idx(k) == CHOOSE i \in present : clean_header(section_headers[i]) = k
    IN  [k \in {clean_header(section_headers[i]) : i \in present} |->
            section_content(md, idx(k))]

\* sections.get(key, "")
Get(sections, key) == IF key \in DOMAIN sections THEN sections[key] ELSE <<>>

----------------------------------------------------------------------------
(* Lines.  text.split('\n') cuts a text at its "\n" tokens; in the texts   *)
(* built here every line is one token.  Lex gives what the regular         *)
(* expressions of the parsers see in a line:                               *)
(*   lead   the bullet it starts with: "-", "--" (standing for the en      *)
(*          dash), "N." (digits and a dot), "|" (a table row), or "" for   *)
(*          none                                                           *)
(*   rest   the line without the lead and the blanks after it              *)
(*   form   the shape of rest: "qa" (Q: x A: y, `sep` between them),       *)
(*          "pair" (x: y), "ifthen" (IF x, THEN y), "arrow" (x ~> y,       *)
(*          "~>" standing for the arrow character), "bold" (bold x),       *)
(*          "row" (cells), "sep" (a table separator), "title" (a section   *)
(*          title, x its lower-cased text), "csv" (comma-separated         *)
(*          `items`), "q" (Q: x), "field" (bold x, colon, y), "moment"     *)
(*          (bold timestamp x -> y), "score" (x: y or x - y, y digits),    *)
(*          "text"                                                         *)
(*   items  the comma- or semicolon-separated pieces of the value          *)
(***************************************************************************)

\* a novel-idea line "- Huge: 999...9" whose score has more digits (4301) than
\* int() converts: int(score_match.group(2)) raises ValueError on it
HugeScoreLine == "- Huge: 999...9"

Plain(t) ==
    [lead |-> "", rest |-> t, form |-> "text", x |-> "", y |-> "",
     sep |-> "", cells |-> <<>>, items |-> <<t>>]

Lex(t) ==
    CASE t = "Feynman Flashcards" ->
            [Plain(t) EXCEPT !.form = "title", !.x = "feynman flashcards"]
      [] t = "Glossary" -> [Plain(t) EXCEPT !.form = "title", !.x = "glossary"]
      [] t = "Quick Quiz" -> [Plain(t) EXCEPT !.form = "title", !.x = "quick quiz"]
      [] t = "1. Q: What is X? A: It is Y" ->
            [Plain(t) EXCEPT !.lead = "N.", !.rest = "Q: What is X? A: It is Y",
                             !.form = "qa", !.x = "What is X?", !.y = "It is Y"]
      [] t = "2. Q: Why? A: Because" ->
            [Plain(t) EXCEPT !.lead = "N.", !.rest = "Q: Why? A: Because",
                             !.form = "qa", !.x = "Why?", !.y = "Because"]
      [] t = "- Q: Why? / A: Because" ->
            [Plain(t) EXCEPT !.lead = "-", !.rest = "Q: Why? / A: Because",
                             !.form = "qa", !.x = "Why?", !.y = "Because",
                             !.sep = "/"]
      [] t = "2. Define the core loop" ->
            [Plain(t) EXCEPT !.lead = "N.", !.rest = "Define the core loop"]
      [] t = "3. Short" -> [Plain(t) EXCEPT !.lead = "N.", !.rest = "Short"]
      [] t = "- Explain the idea simply" ->
            [Plain(t) EXCEPT !.lead = "-", !.rest = "Explain the idea simply",
                             !.items = <<"Explain the idea simply">>]
      [] t = "- **Glossary**" ->
            [Plain(t) EXCEPT !.lead = "-", !.rest = "**Glossary**",
                             !.form = "bold", !.x = "Glossary"]
      [] t = "- **Quick Quiz**" ->
            [Plain(t) EXCEPT !.lead = "-", !.rest = "**Quick Quiz**",
                             !.form = "bold", !.x = "Quick Quiz"]
      [] t = "- **Novel-Idea Meter**" ->
            [Plain(t) EXCEPT !.lead = "-", !.rest = "**Novel-Idea Meter**",
                             !.form = "bold", !.x = "Novel-Idea Meter"]
      [] t = "- Term: Definition" ->
            [Plain(t) EXCEPT !.lead = "-", !.rest = "Term: Definition",
                             !.form = "pair", !.x = "Term", !.y = "Definition",
                             !.items = <<"Term: Definition">>]
      [] t = "GMB, EEAT" ->
            [Plain(t) EXCEPT !.form = "csv", !.items = <<"GMB", "EEAT">>]
      [] t = "| Framework | Essence |" ->
            [Plain(t) EXCEPT !.lead = "|", !.form = "row",
                             !.cells = <<"Framework", "Essence">>]
      [] t = "| Trigger | Action |" ->
            [Plain(t) EXCEPT !.lead = "|", !.form = "row",
                             !.cells = <<"Trigger", "Action">>]
      [] t = "|---|---|" -> [Plain(t) EXCEPT !.lead = "|", !.form = "sep"]
      [] t = "| Loop | Explains loop |" ->
            [Plain(t) EXCEPT !.lead = "|", !.form = "row",
                             !.cells = <<"Loop", "Explains loop">>]
      [] t = "| Flywheel | Compounding | Use weekly |" ->
            [Plain(t) EXCEPT !.lead = "|", !.form = "row",
                             !.cells = <<"Flywheel", "Compounding", "Use weekly">>]
      [] t = "| Name | Desc |" ->
            [Plain(t) EXCEPT !.lead = "|", !.form = "row",
                             !.cells = <<"Name", "Desc">>]
      [] t = "| Flywheel | Compounding | Use weekly | At scale |" ->
            [Plain(t) EXCEPT !.lead = "|", !.form = "row",
                             !.cells = <<"Flywheel", "Compounding", "Use weekly",
                                         "At scale">>]
      [] t = "| Stuck | Ship it |" ->
            [Plain(t) EXCEPT !.lead = "|", !.form = "row",
                             !.cells = <<"Stuck", "Ship it">>]
      [] t = "| Late | Cut scope | Tell the team |" ->
            [Plain(t) EXCEPT !.lead = "|", !.form = "row",
                             !.cells = <<"Late", "Cut scope", "Tell the team">>]
      [] t = "1. Movement Loop: keep moving" ->
            [Plain(t) EXCEPT !.lead = "N.", !.rest = "Movement Loop: keep moving",
                             !.form = "pair", !.x = "Movement Loop",
                             !.y = "keep moving"]
      [] t = "**Core Model**" -> [Plain(t) EXCEPT !.form = "bold", !.x = "Core Model"]
      [] t = "IF stuck, THEN ship" ->
            [Plain(t) EXCEPT !.form = "ifthen", !.x = "stuck", !.y = "ship"]
      [] t = "When blocked ~> Do ask" ->
            [Plain(t) EXCEPT !.form = "arrow", !.x = "When blocked", !.y = "Do ask"]
      [] t = "- Feynman recap line" ->
            [Plain(t) EXCEPT !.lead = "-", !.rest = "Feynman recap line"]
      [] t = "- Q: What is the loop?" ->
            [Plain(t) EXCEPT !.lead = "-", !.rest = "Q: What is the loop?",
                             !.form = "q", !.x = "What is the loop?"]
      [] t = "It describes the core" -> Plain(t)
      [] t = "**Title**: Foo" ->
            [Plain(t) EXCEPT !.form = "field", !.x = "Title", !.y = "Foo"]
      [] t = "**Speakers**: {Alice}, {Bob}" ->
            [Plain(t) EXCEPT !.form = "field", !.x = "Speakers",
                             !.y = "{Alice}, {Bob}", !.items = <<"{Alice}", "{Bob}">>]
      [] t = "**Speakers**: {Speaker A}, Carol" ->
            [Plain(t) EXCEPT !.form = "field", !.x = "Speakers",
                             !.y = "{Speaker A}, Carol",
                             !.items = <<"{Speaker A}", "Carol">>]
      [] t = "**Speakers**: Speaker Pelosi, {Bob}" ->
            [Plain(t) EXCEPT !.form = "field", !.x = "Speakers",
                             !.y = "Speaker Pelosi, {Bob}",
                             !.items = <<"Speaker Pelosi", "{Bob}">>]
      [] t = "**Duration**: 00:10:00" ->
            [Plain(t) EXCEPT !.form = "field", !.x = "Duration", !.y = "00:10:00"]
      [] t = "**Channel**: Chan" ->
            [Plain(t) EXCEPT !.form = "field", !.x = "Channel", !.y = "Chan"]
      [] t = "**Synopsis**: Syn" ->
            [Plain(t) EXCEPT !.form = "field", !.x = "Synopsis", !.y = "Syn"]
      [] t = "**Video URL**: https://youtu.be/x" ->
            [Plain(t) EXCEPT !.form = "field", !.x = "Video URL",
                             !.y = "https://youtu.be/x"]
      [] t = "**Language**: fr" ->
            [Plain(t) EXCEPT !.form = "field", !.x = "Language", !.y = "fr"]
      [] t = "**Generated On**: 2025-01-01" ->
            [Plain(t) EXCEPT !.form = "field", !.x = "Generated On",
                             !.y = "2025-01-01"]
      [] t = "**Version**: v2.1" ->
            [Plain(t) EXCEPT !.form = "field", !.x = "Version", !.y = "v2.1"]
      [] t = "- **03:21** -> Something happens" ->
            [Plain(t) EXCEPT !.lead = "-", !.rest = "**03:21** -> Something happens",
                             !.form = "moment", !.x = "03:21",
                             !.y = "Something happens"]
      [] t = "- **1:02:03** -> Later on" ->
            [Plain(t) EXCEPT !.lead = "-", !.rest = "**1:02:03** -> Later on",
                             !.form = "moment", !.x = "1:02:03", !.y = "Later on"]
      [] t = "-- **03:21** ~> Something happens" ->
            [Plain(t) EXCEPT !.lead = "--", !.rest = "**03:21** ~> Something happens",
                             !.form = "moment", !.x = "03:21",
                             !.y = "Something happens"]
      [] t = "-- Something happens" ->
            [Plain(t) EXCEPT !.lead = "--", !.rest = "Something happens"]
      [] t = "- Myth one is wrong" ->
            [Plain(t) EXCEPT !.lead = "-", !.rest = "Myth one is wrong"]
      [] t = "2. Do the thing" ->
            [Plain(t) EXCEPT !.lead = "N.", !.rest = "Do the thing"]
      [] t = "- Sentiment: generally admiring" ->
            [Plain(t) EXCEPT !.lead = "-", !.rest = "Sentiment: generally admiring",
                             !.form = "pair", !.x = "Sentiment",
                             !.y = "generally admiring",
                             !.items = <<"generally admiring">>]
      [] t = "- Sentiment: quite critical" ->
            [Plain(t) EXCEPT !.lead = "-", !.rest = "Sentiment: quite critical",
                             !.form = "pair", !.x = "Sentiment",
                             !.y = "quite critical", !.items = <<"quite critical">>]
      [] t = "- Sentiment: mostly negative, later positive" ->
            [Plain(t) EXCEPT !.lead = "-",
                             !.rest = "Sentiment: mostly negative, later positive",
                             !.form = "pair", !.x = "Sentiment",
                             !.y = "mostly negative, later positive",
                             !.items = <<"mostly negative", "later positive">>]
      [] t = "- Sentiment: Mixed" ->
            [Plain(t) EXCEPT !.lead = "-", !.rest = "Sentiment: Mixed",
                             !.form = "pair", !.x = "Sentiment", !.y = "Mixed",
                             !.items = <<"Mixed">>]
      [] t = "- Tools: Figma, Notion" ->
            [Plain(t) EXCEPT !.lead = "-", !.rest = "Tools: Figma, Notion",
                             !.form = "pair", !.x = "Tools", !.y = "Figma, Notion",
                             !.items = <<"Figma", "Notion">>]
      [] t = "- Risks: burnout; churn" ->
            [Plain(t) EXCEPT !.lead = "-", !.rest = "Risks: burnout; churn",
                             !.form = "pair", !.x = "Risks", !.y = "burnout; churn",
                             !.items = <<"burnout", "churn">>]
      [] t = "Novel-Idea Meter" ->
            [Plain(t) EXCEPT !.form = "title", !.x = "novel-idea meter"]
      [] t = "- Idea one: 4/5" ->
            [Plain(t) EXCEPT !.lead = "-", !.rest = "Idea one: 4/5",
                             !.form = "score", !.x = "Idea one", !.y = "4"]
      [] t = "- Big bet - 5" ->
            [Plain(t) EXCEPT !.lead = "-", !.rest = "Big bet - 5",
                             !.form = "score", !.x = "Big bet", !.y = "5"]
      [] t = HugeScoreLine ->
            [Plain(t) EXCEPT !.lead = "-", !.rest = "Huge: 999...9",
                             !.form = "score", !.x = "Huge", !.y = "999...9"]
      [] t = "- Just keep going" ->
            [Plain(t) EXCEPT !.lead = "-", !.rest = "Just keep going"]
      [] t = "1. : keep moving" ->
            [Plain(t) EXCEPT !.lead = "N.", !.rest = ": keep moving",
                             !.form = "pair", !.x = "", !.y = "keep moving"]
      [] t = "IF   THEN ship" ->
            [Plain(t) EXCEPT !.form = "ifthen", !.x = "", !.y = "ship"]
      [] t = "- ~> Do ask" ->
            [Plain(t) EXCEPT !.lead = "-", !.rest = "~> Do ask",
                             !.form = "arrow", !.x = "", !.y = "Do ask"]
      [] OTHER -> Plain(t)

RECURSIVE SplitLines(_, _)
\* text.split('\n'): cur is the line being read
SplitLines(text, cur) ==
    IF text = <<>> THEN <<cur>>
    ELSE IF Head(text) = "\n" THEN <<cur>> \o SplitLines(Tail(text), <<>>)
    ELSE SplitLines(Tail(text), Append(cur, Head(text)))

\* line.strip() of one line, as the token it consists of ("" for a blank line)
LineTok(line) ==
    LET l == Strip(line)
    IN  IF l = <<>> THEN "" ELSE IF Len(l) = 1 THEN l[1] ELSE "<mixed>"

\* [line.strip() for line in text.split('\n')]
Lines(text) ==
    LET ls == SplitLines(text, <<>>) IN [i \in 1..Len(ls) |-> LineTok(ls[i])]

RECURSIVE JoinLines(_)
\* '\n'.join(lines)
JoinLines(ls) ==
    IF ls = <<>> THEN <<>>
    ELSE IF Len(ls) = 1 THEN <<ls[1]>>
    ELSE <<ls[1], "\n">> \o JoinLines(Tail(ls))

RECURSIVE Collect(_, _)
\* the records F gives for each line, in line order
Collect(F(_), ls) ==
    IF ls = <<>> THEN <<>> ELSE F(Head(ls)) \o Collect(F, Tail(ls))

\* the index of the first line satisfying P, or 0
FirstLine(P(_), ls) ==
    LET hits == {i \in 1..Len(ls) : P(ls[i])}
    IN  IF hits = {} THEN 0 ELSE CHOOSE i \in hits : \A j \in hits : i <= j

\* phrase in text.lower(), for a phrase that lies within one line
HasPhrase(t, phrase) ==
    \/ Lex(t).form = "title" /\ Lex(t).x = phrase
    \/ phrase = "feynman flashcards" /\ t = "### Feynman Flashcards"
    \/ phrase = "glossary" /\ t \in {"### Glossary", "- **Glossary**"}
    \/ phrase = "quick quiz" /\ t \in {"### Quick Quiz", "- **Quick Quiz**"}
    \/ phrase = "novel-idea meter"
       /\ t \in {"### Novel-Idea Meter", "- **Novel-Idea Meter**"}

\* the section a line "- **Name..." opens, as the alternatives of the
\* next-section patterns name it; "" for any other line
Opens(t) ==
    CASE t = "- **Glossary**" -> "Glossary"
      [] t = "- **Quick Quiz**" -> "Quick Quiz"
      [] t = "- **Novel-Idea Meter**" -> "Novel-Idea"
      [] OTHER -> ""

\* the lines of text[text.lower().find(phrase):] after its first line, cut
\* before the first line that opens one of the sections `stops`
\* (re.search(r'\n[-]\s*\*\*(?:...)')); <<>> when the phrase is absent
SubsectionLines(text, phrase, stops) ==
    LET ls == Lines(text)
        IsTitle(t) == HasPhrase(t, phrase)
        IsStop(t) == Opens(t) \in stops
        start == FirstLine(IsTitle, ls)
        after == SubSeq(ls, start + 1, Len(ls))
        stop == FirstLine(IsStop, after)
    IN  IF start = 0 THEN <<>>
        ELSE IF stop = 0 THEN after ELSE SubSeq(after, 1, stop - 1)

----------------------------------------------------------------------------
(* _parse_flashcards                                                       *)

GenericAnswer == "See video content for detailed explanation"

\* s.lower().startswith(w)
LowerStartsWith(s, w) ==
    \/ w = "feynman" /\ s \in {"Feynman recap line", "Feynman Flashcards"}
    \/ w = "quick quiz" /\ s = "Quick Quiz"
    \/ w = "glossary" /\ s = "Glossary"

\* pattern1: ^\s*\d+\.\s*Q:\s*(.+?)\s*A:\s*(.+?)(?=\n|$)
flash_pattern1(t) ==
    IF Lex(t).lead = "N." /\ Lex(t).form = "qa"
    THEN <<[question |-> IF Lex(t).sep = "" THEN Lex(t).x
                         ELSE Lex(t).x \o " " \o Lex(t).sep,
            answer |-> Lex(t).y]>>
    ELSE <<>>

\* pattern1b: ^\s*-\s*Q:\s*(.+?)\s*[/|]\s*A:\s*(.+?)(?=\n|$)
flash_pattern1b(t) ==
    IF Lex(t).lead = "-" /\ Lex(t).form = "qa" /\ Lex(t).sep \in {"/", "|"}
    THEN <<[question |-> Lex(t).x, answer |-> Lex(t).y]>>
    ELSE <<>>

\* pattern2: ^\s*\d+\.\s*(.+?)(?=\n\s*\d+\.|$), items longer than 10
flash_pattern2(t) ==
    IF Lex(t).lead = "N." /\ Len(Lex(t).rest) > 10
    THEN <<[question |-> Lex(t).rest, answer |-> GenericAnswer]>>
    ELSE <<>>

\* pattern3: ^\s*-\s*(.+?)(?=\n\s*-|$), items longer than 10
flash_pattern3(t) ==
    IF /\ Lex(t).lead = "-"
       /\ Len(Lex(t).rest) > 10
       /\ ~LowerStartsWith(Lex(t).rest, "feynman")
    THEN <<[question |-> Lex(t).rest, answer |-> GenericAnswer]>>
    ELSE <<>>

flashcards_lines(text) ==
    SubsectionLines(text, "feynman flashcards", {"Glossary", "Quick Quiz"})

\* a faulty variant: the numbered-list pattern runs whatever pattern 1 found
_parse_flashcards_merged(text) ==
    LET ls == flashcards_lines(text)
    IN  Collect(flash_pattern1, ls) \o Collect(flash_pattern2, ls)

_parse_flashcards(text) ==
    LET ls == flashcards_lines(text)
        p1 == Collect(flash_pattern1, ls)
        p1b == Collect(flash_pattern1b, ls)
        p2 == Collect(flash_pattern2, ls)
        p3 == Collect(flash_pattern3, ls)
    IN  IF p1 # <<>> THEN p1
        ELSE IF p1b # <<>> THEN p1b
        ELSE IF p2 # <<>> THEN p2
        ELSE p3

----------------------------------------------------------------------------
(* _parse_glossary                                                         *)

GenericDefinition == "Key term mentioned in the video content"

\* pattern1: ^\s*-\s*([^:\n]+?):\s*(.+?)(?=\n|$), section titles filtered
gloss_pattern1(t) ==
    IF /\ Lex(t).lead = "-"
       /\ Lex(t).form = "pair"
       /\ ~LowerStartsWith(Lex(t).x, "glossary")
    THEN <<[term |-> Lex(t).x, definition |-> Lex(t).y]>>
    ELSE <<>>

RECURSIVE SplitTerms(_, _)
\* re.split(r'[,;]...', terms_text) over the captured lines: the last piece
\* of a line and the first piece of the next are one piece, a "\n" inside
SplitTerms(ls, acc) ==
    IF ls = <<>> THEN acc
    ELSE LET items == Lex(Head(ls)).items
             joined == IF acc = <<>> THEN items
                       ELSE SubSeq(acc, 1, Len(acc) - 1)
                            \o <<acc[Len(acc)] \o "\n" \o items[1]>>
                            \o Tail(items)
         IN  SplitTerms(Tail(ls), joined)

NotATerm == {"etc", "e.g.", "eg", "", "and more"}

gloss_term(term) ==
    IF Len(term) > 1 /\ term \notin NotATerm
    THEN <<[term |-> term, definition |-> GenericDefinition]>>
    ELSE <<>>

\* pattern 2: glossary.*?(?:\(\d+\))?[:\s]*(.+?)(?=\n[-]|\Z) captures the
\* lines after the title up to the next line that starts with a dash
gloss_pattern2(ls) ==
    LET IsBullet(t) == Lex(t).lead = "-"
        next == FirstLine(IsBullet, Tail(ls))
        captured == IF next = 0 THEN ls ELSE SubSeq(ls, 1, next)
    IN  IF ls = <<>> THEN <<>> ELSE Collect(gloss_term, SplitTerms(captured, <<>>))

glossary_lines(text) ==
    SubsectionLines(text, "glossary", {"Quick Quiz", "Novel-Idea"})

_parse_glossary(text) ==
    LET ls == glossary_lines(text)
        p1 == Collect(gloss_pattern1, ls)
    IN  IF p1 # <<>> THEN p1 ELSE gloss_pattern2(ls)

----------------------------------------------------------------------------
(* _parse_quiz                                                             *)

ReviewAnswer == "Review video content for the answer"

\* pattern1: (?:^\s*\d+\.\s*|^\s*-\s*)Q:\s*(.+?)\s*[/|]\s*A:\s*(.+?)(?=\n|$)
quiz_pattern1(t) ==
    IF Lex(t).lead \in {"N.", "-"} /\ Lex(t).form = "qa" /\ Lex(t).sep \in {"/", "|"}
    THEN <<[question |-> Lex(t).x, answer |-> Lex(t).y]>>
    ELSE <<>>

\* pattern2: ^\s*-\s*(.+?)(?=\n\s*-|$), a leading "Q:" removed
quiz_pattern2(t) ==
    LET question == IF Lex(t).form = "q" THEN Lex(t).x ELSE Lex(t).rest
    IN  IF /\ Lex(t).lead = "-"
           /\ Len(question) > 10
           /\ ~LowerStartsWith(question, "quick quiz")
        THEN <<[question |-> question, answer |-> ReviewAnswer]>>
        ELSE <<>>

\* pattern3: ^\s*\d+\.\s*(.+?)(?=\n\s*\d+\.|$)
quiz_pattern3(t) ==
    IF Lex(t).lead = "N." /\ Len(Lex(t).rest) > 10
    THEN <<[question |-> Lex(t).rest, answer |-> ReviewAnswer]>>
    ELSE <<>>

quiz_lines(text) == SubsectionLines(text, "quick quiz", {"Novel-Idea"})

_parse_quiz(text) ==
    LET ls == quiz_lines(text)
        p1 == Collect(quiz_pattern1, ls)
        p2 == Collect(quiz_pattern2, ls)
        p3 == Collect(quiz_pattern3, ls)
    IN  IF p1 # <<>> THEN p1
        ELSE IF p2 # <<>> THEN p2
        ELSE p3

----------------------------------------------------------------------------
(* _parse_frameworks                                                       *)

\* line.startswith('| Framework') or line.startswith('|-')
framework_table_mark(t) ==
    \/ Lex(t).form = "row" /\ Lex(t).cells[1] = "Framework"
    \/ Lex(t).form = "sep"

\* a table row: line.startswith('|') and line.count('|') >= 3, split into parts
framework_row(t) ==
    LET parts == Lex(t).cells
        description == IF Len(parts) >= 3
                       THEN parts[2] \o " - " \o parts[3]
                       ELSE parts[2]
    IN  IF Lex(t).form = "row" /\ Len(parts) + 1 >= 3 /\ Len(parts) >= 2
           /\ parts[1] # "" /\ description # ""
        THEN <<[name |-> parts[1], description |-> description]>>
        ELSE <<>>

RECURSIVE framework_table(_, _)
\* the first loop: rows count once a header or separator line was seen
framework_table(ls, in_table) ==
    IF ls = <<>> THEN <<>>
    ELSE IF framework_table_mark(Head(ls)) THEN framework_table(Tail(ls), TRUE)
    ELSE (IF in_table THEN framework_row(Head(ls)) ELSE <<>>)
         \o framework_table(Tail(ls), in_table)

\* numbered_match: ^\d+\.\s*(.+?):\s*(.+)$
framework_numbered(t) ==
    IF Lex(t).lead = "N." /\ Lex(t).form = "pair"
    THEN <<[name |-> Lex(t).x, description |-> Lex(t).y]>>
    ELSE <<>>

RECURSIVE JoinWords(_)
\* ' '.join(lines)
JoinWords(ls) ==
    IF ls = <<>> THEN ""
    ELSE IF Len(ls) = 1 THEN ls[1]
    ELSE ls[1] \o " " \o JoinWords(Tail(ls))

\* line.startswith('**') and line.endswith('**')
is_bold_name(t) == Lex(t).lead = "" /\ Lex(t).form = "bold"

framework_saved(name, description) ==
    IF name # "" /\ description # <<>>
    THEN <<[name |-> name, description |-> JoinWords(description)]>>
    ELSE <<>>

RECURSIVE framework_bold(_, _, _)
\* the fallback loop: a bold line names a framework, the lines under it
\* describe it
framework_bold(ls, current_name, current_description) ==
    IF ls = <<>> THEN framework_saved(current_name, current_description)
    ELSE IF is_bold_name(Head(ls))
    THEN framework_saved(current_name, current_description)
         \o framework_bold(Tail(ls), Lex(Head(ls)).x, <<>>)
    ELSE IF current_name # "" /\ Head(ls) # ""
    THEN framework_bold(Tail(ls), current_name, Append(current_description, Head(ls)))
    ELSE framework_bold(Tail(ls), current_name, current_description)

_parse_frameworks(text) ==
    LET ls == Lines(text)
        table == framework_table(ls, FALSE)
        numbered == Collect(framework_numbered, ls)
    IN  IF table # <<>> THEN table
        ELSE IF numbered # <<>> THEN numbered
        ELSE framework_bold(ls, "", <<>>)

----------------------------------------------------------------------------
(* _parse_playbooks                                                        *)

\* 'trigger' in line.lower() and '|' in line
playbook_table_mark(t) ==
    Lex(t).form = "row" /\ \E i \in 1..Len(Lex(t).cells) : Lex(t).cells[i] = "Trigger"

\* a table row: the first part is the trigger, the others joined the action
playbook_row(t) ==
    LET parts == Lex(t).cells
    IN  IF Lex(t).form = "row" /\ Len(parts) + 1 >= 3 /\ Len(parts) >= 2
           /\ parts[1] # "" /\ JoinWords(Tail(parts)) # ""
        THEN <<[trigger |-> parts[1], action |-> JoinWords(Tail(parts))]>>
        ELSE <<>>

RECURSIVE playbook_table(_, _)
playbook_table(ls, in_table) ==
    IF ls = <<>> THEN <<>>
    ELSE IF playbook_table_mark(Head(ls)) THEN playbook_table(Tail(ls), TRUE)
    ELSE IF Lex(Head(ls)).form = "sep" THEN playbook_table(Tail(ls), in_table)
    ELSE (IF in_table THEN playbook_row(Head(ls)) ELSE <<>>)
         \o playbook_table(Tail(ls), in_table)

\* if_then_match: ^[*-]?\s*IF\s+(.+?),?\s+THEN\s+(.+)\.?$
if_then_match(t) ==
    IF Lex(t).form = "ifthen"
    THEN <<[trigger |-> Lex(t).x, action |-> Lex(t).y]>>
    ELSE <<>>

\* re.sub(r'^(When|If)\s+', '', trigger) and re.sub(r'^(Do|Then)\s+', '', action)
strip_prefix(s) ==
    CASE s = "When blocked" -> "blocked"
      [] s = "Do ask" -> "ask"
      [] OTHER -> s

\* arrow_match: ^[*-]?\s*(.+?)\s*[arrow]\s*(.+)$
arrow_match(t) ==
    IF Lex(t).form = "arrow"
    THEN <<[trigger |-> strip_prefix(Lex(t).x), action |-> strip_prefix(Lex(t).y)]>>
    ELSE <<>>

\* one line of the second loop: IF/THEN, and the arrow form when it is not one
playbook_heuristic(t) ==
    IF if_then_match(t) # <<>> THEN if_then_match(t) ELSE arrow_match(t)

_parse_playbooks(text) ==
    LET ls == Lines(text)
        table == playbook_table(ls, FALSE)
    IN  IF table # <<>> THEN table ELSE Collect(playbook_heuristic, ls)

----------------------------------------------------------------------------
(* The parsers of single fields.                                           *)

\* the value of the optional results
None == [none |-> TRUE]

\* _extract_field: re.search(r'\*\*{field_name}\*\*\s*:\s*(.+?)(?=\n|$)')
_extract_field(text, field_name) ==
    LET ls == Lines(text)
        IsField(t) == Lex(t).form = "field" /\ Lex(t).x = field_name
        at == FirstLine(IsField, ls)
    IN  IF at = 0 THEN "" ELSE Lex(ls[at]).y

\* re.sub(r'[{}]', '', s).strip() of one comma-separated piece
unbrace(s) ==
    CASE s = "{Alice}" -> "Alice"
      [] s = "{Bob}" -> "Bob"
      [] s = "{Speaker A}" -> "Speaker A"
      [] OTHER -> s

\* s.startswith('Speaker ')
is_placeholder(s) == Len(s) >= 8 /\ SubSeq(s, 1, 8) = "Speaker "

speaker_kept(s) ==
    IF unbrace(s) # "" /\ ~is_placeholder(unbrace(s)) THEN <<unbrace(s)>> ELSE <<>>

_extract_speakers(text) ==
    LET ls == Lines(text)
        IsField(t) == Lex(t).form = "field" /\ Lex(t).x = "Speakers"
        at == FirstLine(IsField, ls)
    IN  IF at = 0 \/ _extract_field(text, "Speakers") = ""
        THEN <<>>
        ELSE Collect(speaker_kept, Lex(ls[at]).items)

\* a faulty variant: the bullet must be a hyphen
key_moment_hyphen(t) ==
    IF Lex(t).lead = "-" /\ Lex(t).form = "moment"
    THEN <<[timestamp |-> Lex(t).x, insight |-> Lex(t).y]>>
    ELSE <<>>

\* one match of the key-moment pattern
key_moment(t) ==
    IF Lex(t).lead \in {"-", "--"} /\ Lex(t).form = "moment"
    THEN <<[timestamp |-> Lex(t).x, insight |-> Lex(t).y]>>
    ELSE <<>>

_parse_key_moments(text) == Collect(key_moment, Lines(text))

\* a bullet or numbered line gives its text without the bullet
list_item(t) ==
    IF Lex(t).lead \in {"-", "N."} /\ Lex(t).rest # ""
    THEN <<Lex(t).rest>>
    ELSE <<>>

_parse_list_items(text) == Collect(list_item, Lines(text))

\* word in label.lower()
label_has(label, words) ==
    \/ label = "Sentiment" /\ "sentiment" \in words
    \/ label = "Tools" /\ "tools" \in words
    \/ label = "Risks" /\ "risks" \in words

\* value.lower()
lower(value) == IF value = "Mixed" THEN "mixed" ELSE value

\* word in s
has_word(s, word) ==
    \E i \in 1..(Len(s) - Len(word) + 1) : SubSeq(s, i, i + Len(word) - 1) = word

\* a faulty variant: the value has to be one of the words
value_is(value, words) == lower(value) \in words

\* word in value.lower(), for one of the words
value_has(value, words) == \E word \in words : has_word(lower(value), word)

\* a bullet line "label: value" of the enrichment section
is_labelled(t) == Lex(t).lead = "-" /\ Lex(t).form \in {"pair", "score"}

enrichment_stats(t) ==
    IF is_labelled(t) /\ label_has(Lex(t).x, {"stats", "tools", "links"})
    THEN Lex(t).items ELSE <<>>

enrichment_risks(t) ==
    IF /\ is_labelled(t)
       /\ ~label_has(Lex(t).x, {"stats", "tools", "links"})
       /\ ~label_has(Lex(t).x, {"sentiment"})
       /\ label_has(Lex(t).x, {"risks", "blockers", "questions"})
    THEN Lex(t).items ELSE <<>>

RECURSIVE enrichment_sentiment(_, _)
\* the sentiment after the loop: the last sentiment bullet decides
enrichment_sentiment(ls, sentiment) ==
    IF ls = <<>> THEN sentiment
    ELSE LET t == Head(ls)
         IN  IF /\ is_labelled(t)
                /\ ~label_has(Lex(t).x, {"stats", "tools", "links"})
                /\ label_has(Lex(t).x, {"sentiment"})
             THEN enrichment_sentiment(Tail(ls),
                      IF value_has(Lex(t).y, {"positive", "admiring"}) THEN "positive"
                      ELSE IF value_has(Lex(t).y, {"negative", "critical"})
                           THEN "negative"
                      ELSE "neutral")
             ELSE enrichment_sentiment(Tail(ls), sentiment)

_parse_insight_enrichment(text) ==
    LET ls == Lines(text)
    IN  IF text = <<>> THEN None
        ELSE [stats_tools_links |-> Collect(enrichment_stats, ls),
              sentiment |-> enrichment_sentiment(ls, "neutral"),
              risks_blockers_questions |-> Collect(enrichment_risks, ls)]

\* int(score_match.group(2))
score_value(digits) ==
    CASE digits = "4" -> 4
      [] digits = "5" -> 5

\* score_match on one line of the novel-idea section
novel_idea(t) ==
    IF Lex(t).lead = "-" /\ Lex(t).form = "score"
    THEN <<[insight |-> Lex(t).x, score |-> score_value(Lex(t).y)]>>
    ELSE <<>>

\* 'novel' in line.lower() and 'idea' in line.lower()
is_novel_title(t) == HasPhrase(t, "novel-idea meter")

\* the lines the score pattern is tried on: those after the first title line,
\* later title lines skipped
novel_lines(text) ==
    LET ls == Lines(text)
        start == FirstLine(is_novel_title, ls)
        NotTitle(t) == ~is_novel_title(t)
    IN  IF start = 0 THEN <<>>
        ELSE SelectSeq(SubSeq(ls, start + 1, Len(ls)), NotTitle)

\* int() raises on one of the scores
novel_ideas_raise(text) ==
    \E i \in 1..Len(novel_lines(text)) : novel_lines(text)[i] = HugeScoreLine

_parse_novel_ideas(text) == Collect(novel_idea, novel_lines(text))

----------------------------------------------------------------------------
(* parse_gumloop_summary.  `f` names the step in which an exception no     *)
(* input accounts for (a MemoryError, say) is raised during the call:      *)
(* "summary" for a step of parse_gumloop_summary outside the learning      *)
(* pack, "pack" for a step of the learning-pack parser, "none" for none.   *)

\* the outcome of a block that ended by raising
Raised == [raised |-> TRUE]

\* value or default
Or(value, default) == IF value = "" THEN default ELSE value

\* the try block of _parse_accelerated_learning_pack_from_sections
learning_pack_body(sections, f) ==
    IF f = "pack" \/ novel_ideas_raise(Get(sections, "novel-idea meter"))
    THEN Raised
    ELSE [tldr100 |-> Strip(Get(sections, "tl;dr (<=100 words)")),
          feynman_flashcards |-> _parse_flashcards(Get(sections, "feynman flashcards")),
          glossary |-> _parse_glossary(Get(sections, "glossary")),
          quick_quiz |-> _parse_quiz(Get(sections, "quick quiz")),
          novel_idea_meter |-> _parse_novel_ideas(Get(sections, "novel-idea meter"))]

\* try: ... except Exception: return None
_parse_accelerated_learning_pack_from_sections(sections, f) ==
    Let(LAMBDA pack : IF pack = Raised THEN None ELSE pack,
        learning_pack_body(sections, f))

\* a faulty variant: the language has no default
language_nodefault(video_context) == _extract_field(video_context, "Language")

\* _extract_field(video_context, "Language") or "en"
language_of(video_context) == Or(_extract_field(video_context, "Language"), "en")

\* a faulty variant: the record keeps the payload the sections were cut from
full_content_payload(c) == markdown_content(c)

\* full_content=content
full_content_of(c) == c

\* the steps of the try block after the sections are cut: a raise, or the
\* record of the parsed fields
summary_fields(sections, c, f) ==
    LET video_context == Get(sections, "video context")
    IN  IF f = "summary"
        THEN Raised
        ELSE [title |-> _extract_field(video_context, "Title"),
              speakers |-> _extract_speakers(video_context),
              duration |-> _extract_field(video_context, "Duration"),
              channel |-> _extract_field(video_context, "Channel"),
              synopsis |-> _extract_field(video_context, "Synopsis"),
              video_url |-> Or(_extract_field(video_context, "Video URL"), ""),
              language |-> language_of(video_context),
              generated_on |-> Or(_extract_field(video_context, "Generated On"), ""),
              version |-> Or(_extract_field(video_context, "Version"), "v1.0"),
              tldr |-> Strip(Get(sections, "tl;dr (<=100 words)")),
              key_moments |-> _parse_key_moments(Get(sections, "key moments")),
              frameworks |-> _parse_frameworks(Get(sections, "strategic frameworks")),
              debunked_assumptions |->
                  _parse_list_items(Get(sections, "debunked assumptions")),
              in_practice |-> _parse_list_items(Get(sections, "in practice")),
              playbooks |-> _parse_playbooks(Get(sections, "playbooks & heuristics")),
              insight_enrichment |->
                  _parse_insight_enrichment(Get(sections, "insight enrichment")),
              accelerated_learning_pack |->
                  _parse_accelerated_learning_pack_from_sections(sections, f),
              full_content |-> full_content_of(c)]

\* the try block of parse_gumloop_summary
summary_body(c, f) ==
    Let(LAMBDA sections : summary_fields(sections, c, f), _extract_sections(c))

\* a faulty variant: no handler around the body
parse_gumloop_summary_uncaught(c, f) == summary_body(c, f)

\* try: ... except Exception: return None
parse_gumloop_summary(c, f) ==
    Let(LAMBDA summary : IF summary = Raised THEN None ELSE summary,
        summary_body(c, f))

----------------------------------------------------------------------------
(* extract_key_points_from_gumloop                                         *)

MaxKeyPoints == 5
EnoughKeyPoints == 3
FrameworksUsed == 2

\* a faulty variant: the slice keeps the whole sequence
take_all(s, n) == s

\* s[:n] of a sequence
Take(s, n) == SubSeq(s, 1, Min(n, Len(s)))

DescriptionShown == 100

\* description[:100]
first_100(description) == SubSeq(description, 1, Min(DescriptionShown, Len(description)))

RECURSIVE insights(_)
insights(moments) ==
    IF moments = <<>> THEN <<>> ELSE <<Head(moments).insight>> \o insights(Tail(moments))

RECURSIVE framework_points(_)
framework_points(frameworks) ==
    IF frameworks = <<>> THEN <<>>
    ELSE <<Head(frameworks).name \o ": " \o first_100(Head(frameworks).description)
           \o "...">>
         \o framework_points(Tail(frameworks))

\* a faulty variant: the frameworks are added whenever fewer than five
\* insights were taken, and ahead of them
extract_key_points_frameworks_first(gumloop_summary) ==
    LET from_moments == insights(Take(gumloop_summary.key_moments, MaxKeyPoints))
        key_points ==
            IF Len(from_moments) < MaxKeyPoints
            THEN framework_points(Take(gumloop_summary.frameworks, FrameworksUsed))
                 \o from_moments
            ELSE from_moments
    IN  Take(key_points, MaxKeyPoints)

extract_key_points_from_gumloop(gumloop_summary) ==
    LET from_moments == insights(Take(gumloop_summary.key_moments, MaxKeyPoints))
        key_points ==
            IF Len(from_moments) < EnoughKeyPoints
            THEN from_moments
                 \o framework_points(Take(gumloop_summary.frameworks, FrameworksUsed))
            ELSE from_moments
    IN  Take(key_points, MaxKeyPoints)

----------------------------------------------------------------------------
(* summarize_video, from the point where the transcript is in hand.        *)

\* raise HTTPException(status_code=500, ...)
Http500 == [status |-> 500]

RECURSIVE safe_cards(_)
\* safe_flashcards and safe_quiz: {"q", "a"} of the pairs that have both
safe_cards(items) ==
    IF items = <<>> THEN <<>>
    ELSE (IF Head(items).question # "" /\ Head(items).answer # ""
          THEN <<[q |-> Head(items).question, a |-> Head(items).answer]>>
          ELSE <<>>)
         \o safe_cards(Tail(items))

\* Python values that a glossary entry and its fields may hold: a str, an int,
\* None, or a dict of them
py_str(s) == [str |-> s]

py_int(n) == [int |-> n]

py_dict(d) == [dict |-> d]

\* str(v) of a str or an int
str(v) == IF "str" \in DOMAIN v THEN v.str ELSE ToString(v.int)

\* a faulty variant: None goes through str() like every other value
coerced_unchecked(v) == IF v = None THEN "None" ELSE str(v)

\* `str(x) if x is not None else ""`
coerced(v) == IF v = None THEN "" ELSE str(v)

\* `isinstance(item, dict) and "term" in item and "definition" in item`
is_glossary_dict(item) ==
    /\ "dict" \in DOMAIN item
    /\ {"term", "definition"} \subseteq DOMAIN item.dict

RECURSIVE safe_glossary(_)
\* safe_glossary: the dicts that have both keys, their values coerced
safe_glossary(items) ==
    IF items = <<>> THEN <<>>
    ELSE (IF is_glossary_dict(Head(items))
          THEN <<[term |-> coerced(Head(items).dict.term),
                  definition |-> coerced(Head(items).dict.definition)]>>
          ELSE <<>>)
         \o safe_glossary(Tail(items))

RECURSIVE glossary_terms(_)
\* the legacy glossary: the same entries, less those whose coerced term or
\* definition is empty
glossary_terms(items) ==
    IF items = <<>> THEN <<>>
    ELSE (IF /\ is_glossary_dict(Head(items))
             /\ coerced(Head(items).dict.term) # ""
             /\ coerced(Head(items).dict.definition) # ""
          THEN <<[term |-> coerced(Head(items).dict.term),
                  definition |-> coerced(Head(items).dict.definition)]>>
          ELSE <<>>)
         \o glossary_terms(Tail(items))

\* the glossary as _parse_glossary builds it: dicts of two strs
python_glossary(items) ==
    [i \in 1..Len(items) |->
        py_dict([term |-> py_str(items[i].term),
                 definition |-> py_str(items[i].definition)])]

\* the parsed record as the handler receives it
parsed_record(gumloop_data) ==
    IF gumloop_data.accelerated_learning_pack = None
    THEN gumloop_data
    ELSE [gumloop_data EXCEPT
            !.accelerated_learning_pack.glossary = python_glossary(@)]

\* the response when LangChain summarizes the transcript: no structured field
\* is set after its initialisation
langchain_response(l) ==
    IF l = Raised
    THEN Http500
    ELSE [status |-> 200,
          summary |-> l.content,
          key_points |-> l.key_points,
          metadata |-> None,
          key_moments |-> <<>>,
          frameworks |-> <<>>,
          debunked_assumptions |-> <<>>,
          in_practice |-> <<>>,
          playbooks |-> <<>>,
          insight_enrichment |-> None,
          accelerated_learning_pack |-> None,
          flashcards |-> <<>>,
          quiz_questions |-> <<>>,
          tools |-> <<>>,
          resources |-> <<>>,
          glossary |-> <<>>]

\* the response built from a parsed record: the glossary entries are Python
\* values of any shape, every other field is a string or a list of the
\* declared kind
gumloop_response(gumloop_data) ==
    LET pack == gumloop_data.accelerated_learning_pack
        enrichment == gumloop_data.insight_enrichment
    IN  [status |-> 200,
         summary |-> gumloop_data.full_content,
         key_points |-> extract_key_points_from_gumloop(gumloop_data),
         metadata |-> [title |-> gumloop_data.title,
                       channel |-> gumloop_data.channel,
                       duration |-> gumloop_data.duration,
                       speakers |-> gumloop_data.speakers,
                       synopsis |-> gumloop_data.synopsis,
                       tone |-> "informative"],
         key_moments |-> gumloop_data.key_moments,
         frameworks |-> <<>>,
         debunked_assumptions |-> gumloop_data.debunked_assumptions,
         in_practice |-> gumloop_data.in_practice,
         playbooks |-> <<>>,
         insight_enrichment |-> enrichment,
         accelerated_learning_pack |->
             IF pack = None THEN None
             ELSE [tldr100 |-> pack.tldr100,
                   feynman_flashcards |-> safe_cards(pack.feynman_flashcards),
                   glossary |-> safe_glossary(pack.glossary),
                   quick_quiz |-> safe_cards(pack.quick_quiz),
                   novel_idea_meter |-> pack.novel_idea_meter],
         flashcards |-> IF pack = None THEN <<>> ELSE pack.feynman_flashcards,
         quiz_questions |-> IF pack = None THEN <<>> ELSE pack.quick_quiz,
         tools |-> IF enrichment = None THEN <<>> ELSE enrichment.stats_tools_links,
         resources |-> <<>>,
         glossary |-> IF pack = None THEN <<>> ELSE glossary_terms(pack.glossary)]

\* a faulty variant: the flag alone is enough, as in `is_gumloop or ...`
treated_as_gumloop_either(transcript, flag) == flag \/ is_gumloop_summary(transcript)

\* `if is_gumloop and is_gumloop_summary(transcript)`
treated_as_gumloop(transcript, flag) == flag /\ is_gumloop_summary(transcript)

summarize_video(transcript, flag, f, l) ==
    IF treated_as_gumloop(transcript, flag)
    THEN Let(LAMBDA gumloop_data : IF gumloop_data # None
                                   THEN gumloop_response(parsed_record(gumloop_data))
                                   ELSE langchain_response(l),
             parse_gumloop_summary(transcript, f))
    ELSE langchain_response(l)

----------------------------------------------------------------------------
(* Bounds and inputs.                                                      *)

MaxClassifyLen == 5
MaxSectionLen == 4

\* a run of prose, 60 characters long, holding no marker
Filler == "the speaker talks about many things in this part of the talk"

ClassifyTokens ==
    {"**Title**", "## TL;DR", TldrHeader, "### Glossary", "## In Practice", Filler}

ClassifyInputs == TextsOver(ClassifyTokens, MaxClassifyLen)

SectionTokens ==
    {"## Video Context", "## Key Moments", "### Glossary",
     Delimiter, FenceOpen, FenceClose, " ", "w"}

SectionInputs == TextsOver(SectionTokens, MaxSectionLen)

MaxListLines == 3

FlashcardLines ==
    {"Feynman Flashcards", "1. Q: What is X? A: It is Y", "- Q: Why? / A: Because",
     "2. Define the core loop", "3. Short", "- Explain the idea simply",
     "- Feynman recap line", "- **Glossary**"}

GlossaryLines ==
    {"Glossary", "- Term: Definition", "GMB, EEAT", "- Explain the idea simply",
     "- **Quick Quiz**"}

QuizLines ==
    {"Quick Quiz", "- Q: Why? / A: Because", "- Q: What is the loop?",
     "- Explain the idea simply", "2. Define the core loop", "3. Short",
     "- **Novel-Idea Meter**"}

FrameworkLines ==
    {"| Framework | Essence |", "|---|---|", "| Loop | Explains loop |",
     "| Flywheel | Compounding | Use weekly |", "1. Movement Loop: keep moving",
     "**Core Model**", "It describes the core"}

PlaybookLines ==
    {"| Trigger | Action |", "|---|---|", "| Stuck | Ship it |",
     "| Late | Cut scope | Tell the team |", "IF stuck, THEN ship",
     "When blocked ~> Do ask", "- Just keep going"}

MaxSections == 3
NumVariants == 2

\* the lines written under header i in variant v of a document
Body(i, v) ==
    CASE i = 1 /\ v = 1 -> <<"**Title**: Foo", "**Speakers**: {Alice}, {Bob}",
                             "**Duration**: 00:10:00">>
      [] i = 1 -> <<"**Channel**: Chan", "**Synopsis**: Syn", "**Language**: fr",
                    "**Version**: v2.1", "**Speakers**: {Speaker A}, Carol",
                    "**Video URL**: https://youtu.be/x",
                    "**Generated On**: 2025-01-01">>
      [] i = 2 -> <<"w">>
      [] i = 3 /\ v = 1 -> <<"- **03:21** -> Something happens">>
      [] i = 3 -> <<"- **03:21** -> Something happens", "w",
                    "- **1:02:03** -> Later on">>
      [] i = 4 /\ v = 1 -> <<"| Framework | Essence |", "|---|---|",
                             "| Loop | Explains loop |">>
      [] i = 4 -> <<"1. Movement Loop: keep moving">>
      [] i = 5 -> <<"- Myth one is wrong">>
      [] i = 6 -> <<"2. Do the thing", "w">>
      [] i = 7 /\ v = 1 -> <<"| Trigger | Action |", "| Stuck | Ship it |">>
      [] i = 7 -> <<"IF stuck, THEN ship", "When blocked ~> Do ask">>
      [] i = 8 /\ v = 1 -> <<"- Sentiment: generally admiring",
                             "- Tools: Figma, Notion">>
      [] i = 8 -> <<"- Risks: burnout; churn", "- Sentiment: quite critical">>
      [] i = 9 /\ v = 1 -> <<"1. Q: What is X? A: It is Y">>
      [] i = 9 -> <<"Feynman Flashcards", "1. Q: What is X? A: It is Y">>
      [] i = 10 /\ v = 1 -> <<"- Term: Definition">>
      [] i = 10 -> <<"Glossary", "- Term: Definition">>
      [] i = 11 /\ v = 1 -> <<"- Q: Why? / A: Because">>
      [] i = 11 -> <<"Quick Quiz", "- Q: Why? / A: Because">>
      [] i = 12 /\ v = 1 -> <<"Novel-Idea Meter", "- Idea one: 4/5", "- Big bet - 5">>
      [] i = 12 -> <<"Novel-Idea Meter", "- Idea one: 4/5", HugeScoreLine>>
      [] OTHER -> <<"w">>

RECURSIVE DocBody(_, _, _, _)
\* the sections `present` in the order of the fixed list, from header i on,
\* each closed by `rule`
DocBody(present, v, i, rule) ==
    IF i > Len(section_headers) THEN <<>>
    ELSE (IF i \in present
          THEN <<section_headers[i], "\n">> \o JoinLines(Body(i, v)) \o <<"\n">>
               \o rule
          ELSE <<>>)
         \o DocBody(present, v, i + 1, rule)

\* a document: bare, with a horizontal rule after every section, or inside a
\* markdown fence with commentary around it
Doc(present, v, wrap) ==
    IF wrap = "fence"
    THEN <<"w", "\n", FenceOpen, "\n">> \o DocBody(present, v, 1, <<>>)
         \o <<FenceClose, "\n", "w">>
    ELSE IF wrap = "ruled"
    THEN DocBody(present, v, 1, <<Delimiter, "\n">>)
    ELSE DocBody(present, v, 1, <<>>)

Documents ==
    {Doc(present, v, wrap) :
        present \in {P \in SUBSET (1..Len(section_headers)) :
                        Cardinality(P) <= MaxSections},
        v \in 1..NumVariants,
        wrap \in {"bare", "ruled", "fence"}}

\* the texts of at most MaxListLines lines over the lines V
LinesOver(V) == {JoinLines(ls) : ls \in TextsOver(V, MaxListLines)}

FlashcardInputs == LinesOver(FlashcardLines)
GlossaryInputs == LinesOver(GlossaryLines)
QuizInputs == LinesOver(QuizLines)
FrameworkInputs == LinesOver(FrameworkLines)
PlaybookInputs == LinesOver(PlaybookLines)

----------------------------------------------------------------------------
(* The classifier applied to a text.                                       *)

InitClassify ==
    /\ content \in ClassifyInputs
    /\ fault = "none"
    /\ is_gumloop = FALSE
    /\ llm = None
    /\ pc = "ready"
    /\ ret = None
    /\ breaker = None
    /\ now = 0
    /\ progress = None
    /\ quota_tracker = None

Classify ==
    /\ pc = "ready"
    /\ pc' = "classified"
    /\ ret' = is_gumloop_summary(content)
    /\ UNCHANGED inputs

SpecClassify == InitClassify /\ [][Classify]_vars

(* The section splitter applied to a text.                                 *)

InitSections ==
    /\ content \in SectionInputs
    /\ fault = "none"
    /\ is_gumloop = FALSE
    /\ llm = None
    /\ pc = "ready"
    /\ ret = None
    /\ breaker = None
    /\ now = 0
    /\ progress = None
    /\ quota_tracker = None

ExtractSections ==
    /\ pc = "ready"
    /\ pc' = "split"
    /\ ret' = _extract_sections(content)
    /\ UNCHANGED inputs

SpecSections == InitSections /\ [][ExtractSections]_vars

(* The list parsers, each applied to the text of its section.             *)

InitLists ==
    /\ content \in FlashcardInputs \cup GlossaryInputs \cup QuizInputs
                   \cup FrameworkInputs \cup PlaybookInputs
    /\ fault = "none"
    /\ is_gumloop = FALSE
    /\ llm = None
    /\ pc = "ready"
    /\ ret = None
    /\ breaker = None
    /\ now = 0
    /\ progress = None
    /\ quota_tracker = None

ParseFlashcards ==
    /\ pc = "ready" /\ content \in FlashcardInputs
    /\ pc' = "flashcards"
    /\ ret' = _parse_flashcards(content)
    /\ UNCHANGED inputs

ParseGlossary ==
    /\ pc = "ready" /\ content \in GlossaryInputs
    /\ pc' = "glossary"
    /\ ret' = _parse_glossary(content)
    /\ UNCHANGED inputs

ParseQuiz ==
    /\ pc = "ready" /\ content \in QuizInputs
    /\ pc' = "quiz"
    /\ ret' = _parse_quiz(content)
    /\ UNCHANGED inputs

ParseFrameworks ==
    /\ pc = "ready" /\ content \in FrameworkInputs
    /\ pc' = "frameworks"
    /\ ret' = _parse_frameworks(content)
    /\ UNCHANGED inputs

ParsePlaybooks ==
    /\ pc = "ready" /\ content \in PlaybookInputs
    /\ pc' = "playbooks"
    /\ ret' = _parse_playbooks(content)
    /\ UNCHANGED inputs

NextLists ==
    \/ ParseFlashcards \/ ParseGlossary \/ ParseQuiz
    \/ ParseFrameworks \/ ParsePlaybooks

SpecLists == InitLists /\ [][NextLists]_vars

(* parse_gumloop_summary applied to a document.                            *)

Faults == {"none", "summary", "pack"}

InitParse ==
    /\ content \in Documents
    /\ fault \in Faults
    /\ is_gumloop = FALSE
    /\ llm = None
    /\ pc = "ready"
    /\ ret = None
    /\ breaker = None
    /\ now = 0
    /\ progress = None
    /\ quota_tracker = None

Parse ==
    /\ pc = "ready"
    /\ pc' = "parsed"
    /\ ret' = parse_gumloop_summary(content, fault)
    /\ UNCHANGED inputs

SpecParse == InitParse /\ [][Parse]_vars

(* summarize_video applied to a transcript.                                *)

\* what the summarizer may do: return a summary of its own words, or raise
LlmResults == {[content |-> <<"w", " ", "w">>, key_points |-> <<"w">>], Raised}

InitSummarize ==
    /\ content \in Documents \ {<<>>}
    /\ fault \in Faults
    /\ is_gumloop \in BOOLEAN
    /\ llm \in LlmResults
    /\ pc = "ready"
    /\ ret = None
    /\ breaker = None
    /\ now = 0
    /\ progress = None
    /\ quota_tracker = None

Summarize ==
    /\ pc = "ready"
    /\ pc' = "summarized"
    /\ ret' = summarize_video(content, is_gumloop, fault, llm)
    /\ UNCHANGED inputs

SpecSummarize == InitSummarize /\ [][Summarize]_vars

----------------------------------------------------------------------------
(* Properties of parse_gumloop_summary, checked under SpecParse.           *)

\* the payload the sections are cut from, and whether header i occurs in it
Payload == markdown_content(content)
Occurs(i) == \E p \in 1..Len(Payload) : Hit(Payload[p], section_headers[i])

\* the steps of the call that raise on this input
SummaryRaises == fault = "summary"
PackRaises ==
    \/ fault = "pack"
    \/ /\ Occurs(12)
       /\ \E p \in 1..Len(content) : content[p] = HugeScoreLine

\* C1: for every input text on which no step raises, parse_gumloop_summary
\* returns a record whose full_content is the input text itself, whole and
\* unchanged: also when the text wraps its payload in a markdown fence, holds
\* a "\n---" delimiter, or holds none of the headers.
C1_FullContentIsInput ==
    pc = "parsed" /\ ~SummaryRaises => ret # None /\ ret.full_content = content

\* the case of C1 where the payload is only a part of the text: a fenced
\* document with commentary around the fence
C1_FencedDocumentParsed ==
    /\ pc = "parsed"
    /\ ~SummaryRaises
    /\ Contains(content, FenceOpen)
    /\ Payload # content
    /\ Occurs(3)
    /\ ret # None
    /\ ret.key_moments # <<>>
    /\ ret.full_content = content

----------------------------------------------------------------------------
(* Properties of summarize_video, checked under SpecSummarize.             *)

\* the call uses no parsed record: the flag or the classifier says the text
\* is not a structured summary, or the parse gave None
NoParsedRecord ==
    \/ ~is_gumloop
    \/ ~is_gumloop_summary(content)
    \/ parse_gumloop_summary(content, fault) = None

\* every structured field of a response at its empty or default value
StructuredFieldsDefault(response) ==
    /\ response.metadata = None
    /\ response.key_moments = <<>>
    /\ response.frameworks = <<>>
    /\ response.debunked_assumptions = <<>>
    /\ response.in_practice = <<>>
    /\ response.playbooks = <<>>
    /\ response.insight_enrichment = None
    /\ response.accelerated_learning_pack = None
    /\ response.flashcards = <<>>
    /\ response.quiz_questions = <<>>
    /\ response.glossary = <<>>

----------------------------------------------------------------------------
(* Properties of is_gumloop_summary, checked under SpecClassify.           *)

\* the markers of the fixed list that occur in the text
MarkersIn(c) == {m \in 1..Len(gumloop_markers) : Contains(c, gumloop_markers[m])}

\* C4: is_gumloop_summary returns False for every content shorter than 100
\* characters, the empty string included, however many markers it holds.
C4_ShortIsNotGumloop ==
    pc = "classified" /\ StrLen(content) < 100 => ret = FALSE

\* the case of C4 where a short text holds enough markers
C4_ShortWithMarkers ==
    /\ pc = "classified"
    /\ StrLen(content) < 100
    /\ Cardinality(MarkersIn(content)) >= 4
    /\ ret = FALSE

\* C5 as stated: every input holding at least 4 markers is classified True,
\* every input holding at most 1 is classified False.
C5_MarkersDecide ==
    pc = "classified" =>
        /\ Cardinality(MarkersIn(content)) >= 4 => ret = TRUE
        /\ Cardinality(MarkersIn(content)) <= 1 => ret = FALSE

\* C5, amended: every input of at least 100 characters holding at least 4
\* markers is classified True; every input holding at most 3 markers, in
\* particular at most 1, is classified False, as is every input shorter than
\* 100 characters.
C5_MarkersDecideLongInput ==
    pc = "classified" =>
        /\ StrLen(content) >= 100 /\ Cardinality(MarkersIn(content)) >= 4
               => ret = TRUE
        /\ Cardinality(MarkersIn(content)) <= 3 => ret = FALSE
        /\ StrLen(content) < 100 => ret = FALSE

\* the case of C5 at the threshold: a long text with exactly 4 markers
C5_FourMarkersLongInput ==
    /\ pc = "classified"
    /\ StrLen(content) >= 100
    /\ Cardinality(MarkersIn(content)) = 4
    /\ ret = TRUE

----------------------------------------------------------------------------
(* Properties of _extract_sections, checked under SpecSections.            *)

\* the key under which each header of the fixed list is stored
section_keys ==
    <<"video context", "tl;dr (<=100 words)", "key moments",
      "strategic frameworks", "debunked assumptions", "in practice",
      "playbooks & heuristics", "insight enrichment", "feynman flashcards",
      "glossary", "quick quiz", "novel-idea meter", "how to think like">>

\* the least element of a non-empty set of positions
Least(S) == CHOOSE p \in S : \A q \in S : p <= q

\* the position in the payload of the first occurrence of header i
FirstOccurrence(i) ==
    Least({p \in 1..Len(Payload) : Hit(Payload[p], section_headers[i])})

\* the positions after p where a section opened by header i must end: a
\* header that comes later than i in the fixed list, or a "\n---"
Boundaries(i, p) ==
    {q \in (p + 1)..Len(Payload) :
        \/ Hit(Payload[q], Delimiter)
        \/ \E j \in (i + 1)..Len(section_headers) :
               Hit(Payload[q], section_headers[j])}

\* the text from just after p to the first boundary, or the end of payload
TextAfter(i, p) ==
    IF Boundaries(i, p) = {}
    THEN SubSeq(Payload, p + 1, Len(Payload))
    ELSE SubSeq(Payload, p + 1, Least(Boundaries(i, p)) - 1)

\* C6: every header of the fixed list that occurs in the payload is mapped
\* to the trimmed text that runs from just after its first occurrence to the
\* earliest of: the first later occurrence of a header that comes later in
\* the fixed list, the first "\n---" after it, the end of the payload.
C6_SectionContent ==
    pc = "split" =>
        \A i \in 1..Len(section_headers) :
            Occurs(i) =>
                /\ section_keys[i] \in DOMAIN ret
                /\ ret[section_keys[i]] = Strip(TextAfter(i, FirstOccurrence(i)))

\* the case of C6 where a header of an earlier place in the list stands
\* inside a section and does not end it, and a later one does
C6_EarlierHeaderInsideSection ==
    /\ pc = "split"
    /\ Occurs(1) /\ Occurs(3) /\ Occurs(10)
    /\ FirstOccurrence(3) < FirstOccurrence(1)
    /\ FirstOccurrence(1) < FirstOccurrence(10)
    /\ ret["key moments"] = <<"## Video Context">>

\* C7: the mapping has a key, the lower-cased header title without its
\* hashes, for exactly the headers of the fixed list that occur in the
\* payload; an absent header gives no entry, not even an empty one.
C7_KeysArePresentHeaders ==
    pc = "split" =>
        DOMAIN ret = {section_keys[i] : i \in {j \in 1..Len(section_headers) : Occurs(j)}}

\* the case of C7 where one header occurs with nothing under it and the
\* others are absent
C7_OnlyEmptySection ==
    /\ pc = "split"
    /\ Len(content) > 1
    /\ Occurs(3)
    /\ ~Occurs(1) /\ ~Occurs(10)
    /\ DOMAIN ret = {"key moments"}
    /\ ret["key moments"] = <<>>

----------------------------------------------------------------------------
(* Properties of the parsed record, checked under SpecParse.               *)

\* C8: when a section is absent from the input, parse_gumloop_summary still
\* returns a record (no step raising for another reason) and every field
\* drawn from that section has its default: "" for strings, [] for lists,
\* "en" for language, "v1.0" for version, None for insight_enrichment.
C8_AbsentSectionDefaults ==
    pc = "parsed" /\ ~SummaryRaises =>
        /\ ret # None
        /\ ~Occurs(1) =>
              /\ ret.title = "" /\ ret.speakers = <<>> /\ ret.duration = ""
              /\ ret.channel = "" /\ ret.synopsis = "" /\ ret.video_url = ""
              /\ ret.generated_on = ""
              /\ ret.language = "en"
              /\ ret.version = "v1.0"
        /\ ~Occurs(2) => ret.tldr = <<>>
        /\ ~Occurs(3) => ret.key_moments = <<>>
        /\ ~Occurs(4) => ret.frameworks = <<>>
        /\ ~Occurs(5) => ret.debunked_assumptions = <<>>
        /\ ~Occurs(6) => ret.in_practice = <<>>
        /\ ~Occurs(7) => ret.playbooks = <<>>
        /\ ~Occurs(8) => ret.insight_enrichment = None
        /\ ret.accelerated_learning_pack # None =>
              /\ ~Occurs(2) => ret.accelerated_learning_pack.tldr100 = <<>>
              /\ ~Occurs(9) => ret.accelerated_learning_pack.feynman_flashcards = <<>>
              /\ ~Occurs(10) => ret.accelerated_learning_pack.glossary = <<>>
              /\ ~Occurs(11) => ret.accelerated_learning_pack.quick_quiz = <<>>
              /\ ~Occurs(12) => ret.accelerated_learning_pack.novel_idea_meter = <<>>

\* the case of C8 where some sections are present and parsed while the video
\* context, the tl;dr and the insight enrichment are absent
C8_PartialDocumentParsed ==
    /\ pc = "parsed"
    /\ fault = "none"
    /\ ~Occurs(1) /\ ~Occurs(2) /\ ~Occurs(8)
    /\ Occurs(3) /\ Occurs(9)
    /\ ret # None
    /\ ret.key_moments # <<>>
    /\ ret.language = "en"
    /\ ret.version = "v1.0"
    /\ ret.title = ""
    /\ ret.insight_enrichment = None

\* C9 as stated: when the input holds none of the learning-pack sections
\* (Feynman Flashcards, Glossary, Quick Quiz, Novel-Idea Meter), the
\* accelerated_learning_pack of the parsed record is None.
C9_NoPackSectionsNoPack ==
    pc = "parsed" /\ ~SummaryRaises
    /\ ~Occurs(9) /\ ~Occurs(10) /\ ~Occurs(11) /\ ~Occurs(12)
        => ret.accelerated_learning_pack = None

----------------------------------------------------------------------------
(* Properties of the list parsers, checked under SpecLists.                *)

\* r is the output of the first strategy of outs that yields a record, and
\* empty when none does
ExactlyFirst(r, outs) ==
    LET yielding == {k \in 1..Len(outs) : outs[k] # <<>>}
    IN  IF yielding = {} THEN r = <<>> ELSE r = outs[Least(yielding)]

\* what each strategy of a field finds in the text, in the fixed order
FlashcardStrategies ==
    LET ls == flashcards_lines(content)
    IN  <<Collect(flash_pattern1, ls), Collect(flash_pattern1b, ls),
          Collect(flash_pattern2, ls), Collect(flash_pattern3, ls)>>

GlossaryStrategies ==
    LET ls == glossary_lines(content)
    IN  <<Collect(gloss_pattern1, ls), gloss_pattern2(ls)>>

QuizStrategies ==
    LET ls == quiz_lines(content)
    IN  <<Collect(quiz_pattern1, ls), Collect(quiz_pattern2, ls),
          Collect(quiz_pattern3, ls)>>

FrameworkStrategies ==
    LET ls == Lines(content)
    IN  <<framework_table(ls, FALSE), Collect(framework_numbered, ls),
          framework_bold(ls, "", <<>>)>>

PlaybookStrategies ==
    LET ls == Lines(content)
    IN  <<playbook_table(ls, FALSE), Collect(if_then_match, ls),
          Collect(arrow_match, ls)>>

\* the heuristic lines of a playbook text: every line gives the record of the
\* first of the IF/THEN and arrow forms that it matches
PlaybookLineByLine ==
    LET ls == Lines(content)
        either(t) == IF if_then_match(t) # <<>> THEN if_then_match(t)
                     ELSE arrow_match(t)
    IN  Collect(either, ls)

----------------------------------------------------------------------------
(* extract_key_points_from_gumloop applied to a parsed record.             *)

MaxMoments == 6
MaxFrameworks == 3

\* a description of 120 characters, longer than the part that is shown
LongDescription ==
    "explains how the team keeps a steady weekly rhythm of planning, "
    \o "building, reviewing and shipping work to every customer."

\* the key moments of a record with n of them
RECURSIVE MomentsOf(_)
MomentsOf(n) ==
    IF n = 0 THEN <<>>
    ELSE Append(MomentsOf(n - 1),
                [timestamp |-> "03:21", insight |-> "Moment " \o ToString(n)])

\* the frameworks a record may hold
FrameworkChoices ==
    {[name |-> "Loop", description |-> "Explains loop"],
     [name |-> "Rhythm", description |-> LongDescription]}

\* the records the key points are drawn from: of a GumloopSummary the
\* function reads key_moments and frameworks only
KeyPointInputs ==
    {[key_moments |-> MomentsOf(n), frameworks |-> fs] :
        n \in 0..MaxMoments, fs \in TextsOver(FrameworkChoices, MaxFrameworks)}

InitKeyPoints ==
    /\ content \in KeyPointInputs
    /\ fault = "none"
    /\ is_gumloop = FALSE
    /\ llm = None
    /\ pc = "ready"
    /\ ret = None
    /\ breaker = None
    /\ now = 0
    /\ progress = None
    /\ quota_tracker = None

ExtractKeyPoints ==
    /\ pc = "ready"
    /\ pc' = "key_points"
    /\ ret' = extract_key_points_from_gumloop(content)
    /\ UNCHANGED inputs

SpecKeyPoints == InitKeyPoints /\ [][ExtractKeyPoints]_vars

\* C11: extract_key_points_from_gumloop returns a list of between 0 and 5
\* entries for every record, whatever the number of its key moments and
\* frameworks, zero of each included: the call ends by returning a list of
\* strings.
C11_AtMostFiveKeyPoints ==
    pc = "key_points" =>
        /\ ret \in Seq(STRING)
        /\ Len(ret) \in 0..5
        /\ content.key_moments = <<>> /\ content.frameworks = <<>> => ret = <<>>

\* the case of C11 where the record holds more key moments than are kept
C11_MoreMomentsThanKept ==
    /\ pc = "key_points"
    /\ Len(content.key_moments) > 5
    /\ content.frameworks # <<>>
    /\ Len(ret) = 5

----------------------------------------------------------------------------
(* The response built from a parsed record whose glossary holds entries    *)
(* of any shape.                                                           *)

MaxGlossary == 2

\* the shapes an entry can take
GlossaryShapes ==
    {None,
     py_str("API"),
     py_dict([term |-> py_str("API")]),
     py_dict([definition |-> py_str("An interface")]),
     py_dict([term |-> None, definition |-> py_str("An interface")]),
     py_dict([term |-> py_str("API"), definition |-> None]),
     py_dict([term |-> py_int(42), definition |-> py_str("The answer")]),
     py_dict([term |-> py_str("API"), definition |-> py_str("An interface")])}

\* parsed records that carry metadata, key moments, lists and a learning pack
ParsedRecords ==
    {parse_gumloop_summary(Doc(present, 1, "bare"), "none") :
        present \in {{1, 3, 10}, {1, 2, 12}, {5, 8, 11}}}

ShapeInputs ==
    {[gumloop_data EXCEPT !.accelerated_learning_pack.glossary = items] :
        gumloop_data \in ParsedRecords,
        items \in TextsOver(GlossaryShapes, MaxGlossary)}

InitShape ==
    /\ content \in ShapeInputs
    /\ fault = "none"
    /\ is_gumloop = TRUE
    /\ llm = None
    /\ pc = "ready"
    /\ ret = None
    /\ breaker = None
    /\ now = 0
    /\ progress = None
    /\ quota_tracker = None

\* lines 139-317 of summarize_video on the parsed record
ShapeResponse ==
    /\ pc = "ready"
    /\ pc' = "shaped"
    /\ ret' = gumloop_response(content)
    /\ UNCHANGED inputs

SpecShape == InitShape /\ [][ShapeResponse]_vars

\* the entries of the parsed glossary that are dicts with both keys
WellKeyed ==
    SelectSeq(content.accelerated_learning_pack.glossary,
              LAMBDA e : /\ "dict" \in DOMAIN e
                         /\ "term" \in DOMAIN e.dict
                         /\ "definition" \in DOMAIN e.dict)

\* the string a value of a well-keyed entry is returned as
AsText(v) ==
    IF "none" \in DOMAIN v THEN ""
    ELSE IF "int" \in DOMAIN v THEN ToString(v.int)
    ELSE v.str

\* every field of the response except the two glossaries is the one built
\* from the parsed record
OtherFieldsReturned ==
    /\ ret.summary = content.full_content
    /\ ret.key_points = extract_key_points_from_gumloop(content)
    /\ ret.metadata = [title |-> content.title, channel |-> content.channel,
                       duration |-> content.duration,
                       speakers |-> content.speakers,
                       synopsis |-> content.synopsis, tone |-> "informative"]
    /\ ret.key_moments = content.key_moments
    /\ ret.debunked_assumptions = content.debunked_assumptions
    /\ ret.in_practice = content.in_practice
    /\ ret.insight_enrichment = content.insight_enrichment
    /\ ret.accelerated_learning_pack.tldr100
           = content.accelerated_learning_pack.tldr100
    /\ ret.accelerated_learning_pack.novel_idea_meter
           = content.accelerated_learning_pack.novel_idea_meter
    /\ ret.flashcards = content.accelerated_learning_pack.feynman_flashcards
    /\ ret.quiz_questions = content.accelerated_learning_pack.quick_quiz

----------------------------------------------------------------------------
(* Invocations of parse_gumloop_summary that run interleaved.  In this     *)
(* specification content[i] is the argument of invocation i, pc[i] its     *)
(* position and ret[i] its frame: the local `sections` and the value       *)
(* returned to its caller.                                                 *)

MaxInvocations == 3

Invocations == 1..MaxInvocations

\* arguments: a plain document, a fenced one, and one whose score raises
ConcurrentTexts ==
    {Doc({1, 3}, 1, "bare"), Doc({1, 3, 10}, 2, "fence"), Doc({12}, 2, "bare")}

\* a faulty variant: `sections` is one module-level dict
frame_shared(i) == 1

\* the frame that holds the locals of invocation i
frame(i) == i

InitConcurrent ==
    /\ content \in [Invocations -> ConcurrentTexts]
    /\ fault = "none"
    /\ is_gumloop = TRUE
    /\ llm = None
    /\ pc = [i \in Invocations |-> "called"]
    /\ ret = [i \in Invocations |-> [sections |-> None, result |-> None]]
    /\ breaker = None
    /\ now = 0
    /\ progress = None
    /\ quota_tracker = None

\* line 131: sections = _extract_sections(content)
SplitSections(i) ==
    /\ pc[i] = "called"
    /\ pc' = [pc EXCEPT ![i] = "split"]
    /\ ret' = [ret EXCEPT ![frame(i)].sections = _extract_sections(content[i])]
    /\ UNCHANGED inputs

\* lines 138-203: the fields are parsed from `sections` and the record, or
\* None after a raise, is returned
ReturnSummary(i) ==
    /\ pc[i] = "split"
    /\ pc' = [pc EXCEPT ![i] = "returned"]
    /\ ret' = [ret EXCEPT ![i].result =
                  Let(LAMBDA summary : IF summary = Raised THEN None ELSE summary,
                      summary_fields(ret[frame(i)].sections, content[i], fault))]
    /\ UNCHANGED inputs

NextConcurrent == \E i \in Invocations : SplitSections(i) \/ ReturnSummary(i)

SpecConcurrent == InitConcurrent /\ [][NextConcurrent]_vars

\* what every returned invocation holds is the parse of its own argument,
\* so equal arguments gave equal results
OwnResult ==
    /\ \A i \in Invocations :
          pc[i] = "returned" => ret[i].result = parse_gumloop_summary(content[i], "none")
    /\ \A i, j \in Invocations :
          pc[i] = "returned" /\ pc[j] = "returned" /\ content[i] = content[j]
              => ret[i].result = ret[j].result

\* a step leaves the position and the frame of all invocations but one alone
OwnFrame ==
    \E i \in Invocations :
        \A j \in Invocations \ {i} : pc'[j] = pc[j] /\ ret'[j] = ret[j]

----------------------------------------------------------------------------
(* parse_gumloop_summary applied to a document of one section, whose       *)
(* lines are drawn from the vocabulary of that section.                    *)

MaxDocLines == 3

ContextLines ==
    {"**Title**: Foo", "**Speakers**: {Alice}, {Bob}",
     "**Speakers**: {Speaker A}, Carol", "**Speakers**: Speaker Pelosi, {Bob}",
     "**Duration**: 00:10:00", "w"}

MomentLines ==
    {"-- **03:21** ~> Something happens", "- **1:02:03** -> Later on",
     "-- Something happens", "- Myth one is wrong", "w"}

EnrichmentLines ==
    {"- Sentiment: generally admiring", "- Sentiment: quite critical",
     "- Sentiment: mostly negative, later positive", "- Sentiment: Mixed",
     "- Tools: Figma, Notion", "w"}

FrameworkRows ==
    {"| Framework | Essence |", "| Name | Desc |", "|---|---|",
     "| Loop | Explains loop |", "| Flywheel | Compounding | Use weekly |",
     "| Flywheel | Compounding | Use weekly | At scale |",
     "1. Movement Loop: keep moving", "1. : keep moving",
     "**Core Model**", "It describes the core"}

PlaybookRows ==
    {"| Trigger | Action |", "|---|---|", "| Stuck | Ship it |",
     "| Late | Cut scope | Tell the team |", "w",
     "IF stuck, THEN ship", "IF   THEN ship",
     "When blocked ~> Do ask", "- ~> Do ask"}

CardLines ==
    {"1. Q: What is X? A: It is Y", "2. Q: Why? A: Because", "2. Define the core loop",
     "- Q: Why? / A: Because", "Feynman Flashcards", "w"}

\* the vocabulary of the section under header i
SectionLines(i) ==
    CASE i = 1 -> ContextLines
      [] i = 3 -> MomentLines
      [] i = 4 -> FrameworkRows
      [] i = 7 -> PlaybookRows
      [] i = 8 -> EnrichmentLines
      [] i = 9 -> CardLines

SectionsDrawn == {1, 3, 4, 7, 8, 9}

\* header i and the lines ls under it
SectionDoc(i, ls) == <<section_headers[i], "\n">> \o JoinLines(ls) \o <<"\n">>

SectionDocs ==
    UNION {{SectionDoc(i, ls) : ls \in TextsOver(SectionLines(i), MaxDocLines)} :
              i \in SectionsDrawn}

InitSectionDoc ==
    /\ content \in SectionDocs
    /\ fault = "none"
    /\ is_gumloop = FALSE
    /\ llm = None
    /\ pc = "ready"
    /\ ret = None
    /\ breaker = None
    /\ now = 0
    /\ progress = None
    /\ quota_tracker = None

SpecSectionDoc == InitSectionDoc /\ [][Parse]_vars

\* the document is header i followed by lines of that section
Under(i) == content # <<>> /\ Head(content) = section_headers[i]

\* the elements of a sequence
Range(s) == {s[i] : i \in 1..Len(s)}

\* the lines under the header of the document
DocLines == Lines(SubSeq(content, 3, Len(content)))

----------------------------------------------------------------------------
(* C14: title and speakers of the Video Context section.                   *)

\* the comma-separated pieces of the first Speakers line of the document
SpeakerPieces ==
    LET IsSpeakers(t) == Lex(t).form = "field" /\ Lex(t).x = "Speakers"
        at == FirstLine(IsSpeakers, DocLines)
    IN  IF at = 0 THEN <<>> ELSE Lex(DocLines[at]).items

\* placeholder text of the form "Speaker <letter>"
LetterPlaceholder(s) == \E l \in {"A", "B", "C"} : s = "Speaker " \o l

NotLetterPlaceholder(s) ==
    IF LetterPlaceholder(unbrace(s)) THEN <<>> ELSE <<unbrace(s)>>

\* C14: the title is the value of the Title line, and the speakers are the
\* pieces of the Speakers value between commas, in order and without braces,
\* less only those of the form "Speaker <letter>"; so Title Foo and Speakers
\* {Alice}, {Bob} give "Foo" and <<"Alice", "Bob">>.
C14_OnlyLetterPlaceholdersDiscarded ==
    pc = "parsed" /\ Under(1) =>
        /\ ret.speakers = Collect(NotLetterPlaceholder, SpeakerPieces)
        /\ "**Title**: Foo" \in Range(DocLines) => ret.title = "Foo"

----------------------------------------------------------------------------
(* C15: the Key Moments section.                                           *)

\* the lines of the document that are a dash, a bold timestamp, an arrow and
\* a text
TimestampLines ==
    SelectSeq(DocLines,
              LAMBDA t : t \in {"-- **03:21** ~> Something happens",
                                "- **1:02:03** -> Later on"})

\* the timestamp and the text as they are written in such a line
Written(t) ==
    IF t = "-- **03:21** ~> Something happens"
    THEN [timestamp |-> "03:21", insight |-> "Something happens"]
    ELSE [timestamp |-> "1:02:03", insight |-> "Later on"]

----------------------------------------------------------------------------
(* C16: a table of the Strategic Frameworks section under its own header.  *)

\* C16: the section whose lines are the header row | Name | Desc | and the
\* data row | Loop | Explains loop | gives exactly one framework, named Loop
\* and described as "Explains loop".
C16_HeaderAndRowGiveOneFramework ==
    pc = "parsed" /\ content = SectionDoc(4, <<"| Name | Desc |", "| Loop | Explains loop |">>)
        => ret.frameworks = <<[name |-> "Loop", description |-> "Explains loop"]>>

----------------------------------------------------------------------------
(* C17: the sentiment of the Insight Enrichment section.                   *)

\* the sentiment bullets of the document, in order
SentimentBullets ==
    SelectSeq(DocLines,
              LAMBDA t : t \in {"- Sentiment: generally admiring",
                                "- Sentiment: quite critical",
                                "- Sentiment: mostly negative, later positive",
                                "- Sentiment: Mixed"})

\* what the rule gives for the value of each bullet: positive for a value
\* with "positive" or "admiring", else negative for one with "negative" or
\* "critical", else neutral
RuledSentiment(t) ==
    CASE t = "- Sentiment: generally admiring" -> "positive"
      [] t = "- Sentiment: mostly negative, later positive" -> "positive"
      [] t = "- Sentiment: quite critical" -> "negative"
      [] t = "- Sentiment: Mixed" -> "neutral"

\* C17: an Insight Enrichment section without text gives no enrichment
\* record; in one that has text, the sentiment is
\* "neutral" when there is no sentiment bullet, and otherwise what the rule
\* gives for the value of the last sentiment bullet: "positive" if it has
\* "positive" or "admiring", else "negative" if it has "negative" or
\* "critical", else "neutral".
C17_SentimentRule ==
    pc = "parsed" /\ Under(8) =>
        IF Range(DocLines) = {""}
        THEN ret.insight_enrichment = None
        ELSE ret.insight_enrichment.sentiment =
                 IF SentimentBullets = <<>> THEN "neutral"
                 ELSE RuledSentiment(SentimentBullets[Len(SentimentBullets)])

C17_PositiveWinsOverNegative ==
    /\ pc = "parsed"
    /\ content = SectionDoc(8, <<"- Sentiment: quite critical",
                                 "- Sentiment: mostly negative, later positive",
                                 "- Tools: Figma, Notion">>)
    /\ ret.insight_enrichment.sentiment = "positive"

----------------------------------------------------------------------------
(* CircuitBreaker (api/utils/circuit_breaker.py).  In this specification   *)
(* content holds the arguments of the constructor, pc the number of calls  *)
(* that await the wrapped function, and ret the outcomes handed to the     *)
(* callers in the order of their return, with the manual resets between    *)
(* them.                                                                   *)

MaxThreshold == 3
MaxCalls == 4
MaxTime == 2
MaxDays == 1

\* recovery_timeout, in seconds
RecoveryTimeouts == {1, 2}

\* last_failure_time = None
NoTime == -1

\* timedelta.seconds lies in 0..86399
SecondsPerDay == 86400

\* __init__
CircuitBreaker(failure_threshold, recovery_timeout) ==
    [failure_threshold |-> failure_threshold,
     recovery_timeout |-> recovery_timeout,
     failure_count |-> 0,
     last_failure_time |-> NoTime,
     state |-> "closed",
     success_count |-> 0,
     total_calls |-> 0]

\* a faulty variant: the trial call is let through one second early
_should_attempt_reset_early(self, t) ==
    IF self.last_failure_time = NoTime THEN FALSE
    ELSE (t - self.last_failure_time) % SecondsPerDay >= self.recovery_timeout - 1

_should_attempt_reset(self, t) ==
    IF self.last_failure_time = NoTime THEN FALSE
    ELSE (t - self.last_failure_time) % SecondsPerDay >= self.recovery_timeout

_on_success(self) ==
    [self EXCEPT !.failure_count = 0,
                 !.success_count = @ + 1,
                 !.state = "closed"]

\* a faulty variant: the circuit opens one failure late
_on_failure_late(self, t) ==
    [self EXCEPT !.failure_count = @ + 1,
                 !.last_failure_time = t,
                 !.state = IF self.failure_count + 1 > self.failure_threshold
                           THEN "open" ELSE @]

_on_failure(self, t) ==
    [self EXCEPT !.failure_count = @ + 1,
                 !.last_failure_time = t,
                 !.state = IF self.failure_count + 1 >= self.failure_threshold
                           THEN "open" ELSE @]

reset(self) ==
    [self EXCEPT !.state = "closed",
                 !.failure_count = 0,
                 !.success_count = 0,
                 !.total_calls = 0,
                 !.last_failure_time = NoTime]

\* calls and resets made so far
Made == Len(ret) + pc

InitBreaker ==
    /\ content \in [failure_threshold : 1..MaxThreshold,
                    recovery_timeout : RecoveryTimeouts]
    /\ fault = "none"
    /\ is_gumloop = FALSE
    /\ llm = None
    /\ pc = 0
    /\ ret = <<>>
    /\ breaker = CircuitBreaker(content.failure_threshold, content.recovery_timeout)
    /\ now = 0
    /\ progress = None
    /\ quota_tracker = None

\* call, up to the await: the call is counted, and an open circuit either
\* lets it through as the trial call or fails it fast
BeginCall ==
    /\ Made < MaxCalls
    /\ IF breaker.state = "open" /\ ~_should_attempt_reset(breaker, now)
       THEN /\ breaker' = [breaker EXCEPT !.total_calls = @ + 1]
            /\ pc' = pc
            /\ ret' = Append(ret, "rejected")
       ELSE /\ breaker' = [breaker EXCEPT
                              !.total_calls = @ + 1,
                              !.state = IF @ = "open" THEN "half_open" ELSE @]
            /\ pc' = pc + 1
            /\ ret' = ret
    /\ UNCHANGED <<progress, quota_tracker, content, fault, is_gumloop, llm, now>>

\* the wrapped function returns
CallSucceeds ==
    /\ pc > 0
    /\ breaker' = _on_success(breaker)
    /\ pc' = pc - 1
    /\ ret' = Append(ret, "success")
    /\ UNCHANGED <<progress, quota_tracker, content, fault, is_gumloop, llm, now>>

\* the wrapped function raises an expected_exception
CallFails ==
    /\ pc > 0
    /\ breaker' = _on_failure(breaker, now)
    /\ pc' = pc - 1
    /\ ret' = Append(ret, "failure")
    /\ UNCHANGED <<progress, quota_tracker, content, fault, is_gumloop, llm, now>>

\* the wrapped function is left by an exception that is no expected_exception
\* (with the default, a cancellation): no handler of call runs
CallEscapes ==
    /\ pc > 0
    /\ pc' = pc - 1
    /\ ret' = Append(ret, "escaped")
    /\ UNCHANGED <<progress, quota_tracker, content, fault, is_gumloop, llm, breaker, now>>

\* reset()
ManualReset ==
    /\ Made < MaxCalls
    /\ breaker' = reset(breaker)
    /\ ret' = Append(ret, "reset")
    /\ UNCHANGED <<progress, quota_tracker, content, fault, is_gumloop, llm, pc, now>>

\* a second passes
Tick ==
    /\ now % SecondsPerDay < MaxTime
    /\ now' = now + 1
    /\ UNCHANGED <<progress, quota_tracker, content, fault, is_gumloop, llm, pc, ret, breaker>>

\* a day passes in which the circuit is not used
DayPasses ==
    /\ now < MaxDays * SecondsPerDay
    /\ now' = now + SecondsPerDay
    /\ UNCHANGED <<progress, quota_tracker, content, fault, is_gumloop, llm, pc, ret, breaker>>

NextBreaker ==
    \/ BeginCall
    \/ CallSucceeds
    \/ CallFails
    \/ CallEscapes
    \/ ManualReset
    \/ Tick
    \/ DayPasses

SpecBreaker == InitBreaker /\ [][NextBreaker]_vars

RECURSIVE FailuresInARow(_)
\* the number of failed calls at the end of the outcomes h since the last
\* success or reset; calls that did not reach the function's verdict (failed
\* fast, or left by another exception) are passed over
FailuresInARow(h) ==
    IF h = <<>> THEN 0
    ELSE LET last == h[Len(h)]
             before == SubSeq(h, 1, Len(h) - 1)
         IN  CASE last = "failure" -> 1 + FailuresInARow(before)
               [] last \in {"success", "reset"} -> 0
               [] OTHER -> FailuresInARow(before)

\* the circuit is closed exactly while fewer than failure_threshold calls
\* failed in a row, and failure_count is that number
ClosedBelowThreshold ==
    /\ breaker.failure_count = FailuresInARow(ret)
    /\ breaker.state = "closed" <=> FailuresInARow(ret) < breaker.failure_threshold

\* a step leaves the closed state only by the failure that completes the
\* row, and then the circuit is open
OpensAtThreshold ==
    breaker.state = "closed" /\ breaker'.state # "closed" =>
        /\ breaker'.state = "open"
        /\ FailuresInARow(ret) = breaker.failure_threshold - 1
        /\ FailuresInARow(ret') = breaker.failure_threshold

\* C18: a CircuitBreaker that starts closed with failure_count 0 is closed
\* while fewer than failure_threshold calls have failed in a row since the
\* last success, opens at the failure that makes the row failure_threshold
\* long, and has failure_count 0 after every successful call.
C18_OpensAtThresholdInARow == []ClosedBelowThreshold /\ [][OpensAtThreshold]_vars

C18_SuccessThenThresholdFailures ==
    /\ breaker.failure_threshold = 2
    /\ breaker.state = "open"
    /\ ret = <<"failure", "success", "failure", "failure">>

----------------------------------------------------------------------------
(* C19: the Feynman Flashcards section as the splitter delivers it.        *)

\* the numbered lines "N. Q: question A: answer" of the document
NumberedCards ==
    SelectSeq(DocLines,
              LAMBDA t : t \in {"1. Q: What is X? A: It is Y", "2. Q: Why? A: Because"})

\* the question and the answer written in such a line
CardWritten(t) ==
    IF t = "1. Q: What is X? A: It is Y"
    THEN [question |-> "What is X?", answer |-> "It is Y"]
    ELSE [question |-> "Why?", answer |-> "Because"]

\* C19: when the body of the Feynman Flashcards section consists of numbered
\* "N. Q: question A: answer" lines, the flashcards of the learning pack are
\* the question and answer of each line, in the order of the lines.
C19_NumberedCardsInOrder ==
    pc = "parsed" /\ Under(9) /\ NumberedCards # <<>>
    /\ Range(DocLines) \subseteq (Range(NumberedCards) \cup {""})
        => ret.accelerated_learning_pack.feynman_flashcards
               = [k \in 1..Len(NumberedCards) |-> CardWritten(NumberedCards[k])]

----------------------------------------------------------------------------
(* C20: the rows of a table under Strategic Frameworks or Playbooks &      *)
(* Heuristics.                                                             *)

\* the lines of the document that are not blank
TableLines == SelectSeq(DocLines, LAMBDA t : t # "")

HeaderRows == {"| Framework | Essence |", "| Name | Desc |", "| Trigger | Action |"}

\* the document is a table: a header row, a separator row, then data rows
IsTable ==
    /\ Len(TableLines) >= 3
    /\ TableLines[1] \in HeaderRows
    /\ TableLines[2] = "|---|---|"
    /\ \A k \in 3..Len(TableLines) :
          Lex(TableLines[k]).form = "row" /\ TableLines[k] \notin HeaderRows

RECURSIVE JoinDash(_)
\* the cells joined with " - "
JoinDash(cells) ==
    IF Len(cells) = 1 THEN cells[1]
    ELSE cells[1] \o " - " \o JoinDash(Tail(cells))

\* C20: in a table under Strategic Frameworks or Playbooks & Heuristics the
\* header row and the separator row give no record, and every data row with
\* cells c0, c1, ..., cn gives one record, in order: its name (or trigger)
\* is c0 and its description (or action) is c1 ... cn joined with " - ".
C20_RowsJoinedWithDash ==
    pc = "parsed" /\ (Under(4) \/ Under(7)) /\ IsTable =>
        LET rows == SubSeq(TableLines, 3, Len(TableLines))
            first(k) == Lex(rows[k]).cells[1]
            others(k) == JoinDash(Tail(Lex(rows[k]).cells))
        IN  /\ Under(4) =>
                ret.frameworks = [k \in 1..Len(rows) |->
                                     [name |-> first(k), description |-> others(k)]]
            /\ Under(7) =>
                ret.playbooks = [k \in 1..Len(rows) |->
                                    [trigger |-> first(k), action |-> others(k)]]

----------------------------------------------------------------------------
(* The order of the headers in the document, checked under SpecSections.   *)

\* the positions of the payload where header i occurs
Occurrences(i) == {p \in 1..Len(Payload) : Hit(Payload[p], section_headers[i])}

\* the headers of the fixed list that occur in the payload
Present == {i \in 1..Len(section_headers) : Occurs(i)}

\* every header occurs at most once, and in the order of the fixed list
InListOrder ==
    /\ \A i \in Present : Cardinality(Occurrences(i)) = 1
    /\ \A i, j \in Present : i < j => FirstOccurrence(i) < FirstOccurrence(j)

\* text t holds a header of the fixed list
HoldsHeader(t) == \E j \in 1..Len(section_headers) : Contains(t, section_headers[j])

\* header j opens the section that precedes header i in the document: j
\* occurs before i and no header of the list occurs between them
Precedes(j, i) ==
    /\ FirstOccurrence(j) < FirstOccurrence(i)
    /\ \A k \in Present :
           Occurrences(k) \cap ((FirstOccurrence(j) + 1)..(FirstOccurrence(i) - 1)) = {}

\* a "\n---" stands between the first occurrences of headers j and i
RuledOff(j, i) ==
    \E p \in (FirstOccurrence(j) + 1)..(FirstOccurrence(i) - 1) :
        Hit(Payload[p], Delimiter)

\* text t has a segment that starts with header i and whose remainder,
\* trimmed, is the content stored for header i
HoldsSection(t, i) ==
    \E a \in 1..Len(t) : \E b \in a..Len(t) :
        /\ t[a] = section_headers[i]
        /\ Strip(SubSeq(t, a + 1, b)) = ret[section_keys[i]]

\* in list order no content holds a header of the list
InOrderNoHeaderInside ==
    (pc = "split" /\ InListOrder) =>
        \A k \in DOMAIN ret : ~HoldsHeader(ret[k])

\* C21 as stated: a header that stands earlier in the fixed list than the
\* header of the section preceding it in the document is no boundary, and
\* its header text and body are part of that section's content.
C21_EarlierHeaderJoinsPrecedingSection ==
    /\ InOrderNoHeaderInside
    /\ pc = "split" =>
           \A i, j \in Present :
               (i < j /\ Precedes(j, i)) => HoldsSection(ret[section_keys[j]], i)

\* C21: when the headers occur in list order, each at most once, no section
\* content holds a header of the list; when header i stands earlier in the
\* list than header j, whose section precedes it in the document, and no
\* "\n---" stands between the two, the content of j holds the header text of
\* i followed by the content of i.
C21_HeaderOrderDecidesBoundaries ==
    /\ InOrderNoHeaderInside
    /\ pc = "split" =>
           \A i, j \in Present :
               (i < j /\ Precedes(j, i) /\ ~RuledOff(j, i)) =>
                   HoldsSection(ret[section_keys[j]], i)

\* the case of C21 where the first header of the list follows the third with
\* a body of its own, and a later header ends both sections
C21_ContextUnderKeyMoments ==
    /\ pc = "split"
    /\ content = <<"## Key Moments", "## Video Context", "w", "### Glossary">>
    /\ ret["key moments"] = <<"## Video Context", "w">>
    /\ ret["video context"] = <<"w">>

----------------------------------------------------------------------------
(* The order of the key points, checked under SpecKeyPoints.               *)

\* the number of insights taken from a record
InsightsTaken == Min(5, Len(content.key_moments))

\* the number of entries that come from frameworks
FrameworkEntries ==
    IF InsightsTaken < 3 THEN Min(2, Len(content.frameworks)) ELSE 0

\* "<name>: <first 100 chars of description>..."
FrameworkEntry(f) ==
    f.name \o ": " \o SubSeq(f.description, 1, Min(100, Len(f.description))) \o "..."

\* C22: the result is the insights of the first min(5, n) key moments in
\* document order, followed, only when fewer than 3 insights were taken, by
\* the entries "<name>: <first 100 chars of description>..." of the first
\* frameworks (at most two) in framework order.
C22_InsightsThenFrameworks ==
    pc = "key_points" =>
        /\ Len(ret) = InsightsTaken + FrameworkEntries
        /\ \A i \in 1..InsightsTaken : ret[i] = content.key_moments[i].insight
        /\ \A i \in 1..FrameworkEntries :
               ret[InsightsTaken + i] = FrameworkEntry(content.frameworks[i])

\* the case of C22 where two insights are taken and two frameworks follow
\* them, the second with its description cut at 100 characters
C22_TwoInsightsTwoFrameworks ==
    /\ pc = "key_points"
    /\ Len(content.key_moments) = 2
    /\ Len(content.frameworks) = 3
    /\ content.frameworks[2].description = LongDescription
    /\ Len(ret) = 4
    /\ ret[2] = "Moment 2"
    /\ ret[3] = "Loop: Explains loop..."
    /\ Len(ret[4]) = Len("Rhythm: ") + 100 + 3

----------------------------------------------------------------------------
(* C23: the fields of the frameworks and playbooks of a parse result.      *)

\* C23: every framework of a parse result has a non-empty name and a
\* non-empty description, and every playbook a non-empty trigger and a
\* non-empty action, whichever strategy produced the record.
C23_RecordsHaveBothFields ==
    pc = "parsed" =>
        /\ \A k \in 1..Len(ret.frameworks) :
               ret.frameworks[k].name # "" /\ ret.frameworks[k].description # ""
        /\ \A k \in 1..Len(ret.playbooks) :
               ret.playbooks[k].trigger # "" /\ ret.playbooks[k].action # ""

----------------------------------------------------------------------------
(* C24: the markdown fence, checked under SpecSections.                    *)

\* the positions of the text that hold a markdown fence
FencePositions == {p \in 1..Len(content) : content[p] = FenceOpen}

\* the first markdown fence
FirstFence == Least(FencePositions)

\* the positions after the first fence where three backticks occur
ClosingPositions ==
    {p \in (FirstFence + 1)..Len(content) : content[p] \in {FenceOpen, FenceClose}}

\* the text between the first fence and the next three backticks, or the end
Interior ==
    IF ClosingPositions = {}
    THEN SubSeq(content, FirstFence + 1, Len(content))
    ELSE SubSeq(content, FirstFence + 1, Least(ClosingPositions) - 1)

\* the keys of the headers of the fixed list that occur in text t
KeysIn(t) ==
    {section_keys[i] : i \in {j \in 1..Len(section_headers) :
                                  Contains(t, section_headers[j])}}

\* C24: when the text holds a markdown fence, the result is that of the
\* text between the first fence and the next three backticks (the end of the
\* text when there are none), so a header that occurs only outside it gives
\* no section; without a markdown fence the headers of the whole text give
\* the sections.
C24_OnlyFencedInterior ==
    pc = "split" =>
        IF FencePositions = {}
        THEN DOMAIN ret = KeysIn(content)
        ELSE /\ DOMAIN ret = KeysIn(Interior)
             /\ ret = _extract_sections(Interior)

\* the case of C24 where one header stands before the fence and another
\* inside it: only the one inside gives a section
C24_HeaderBeforeFenceDropped ==
    /\ pc = "split"
    /\ content = <<"## Video Context", FenceOpen, "## Key Moments", FenceClose>>
    /\ DOMAIN ret = {"key moments"}

----------------------------------------------------------------------------
(* The open circuit, checked under SpecBreaker.                            *)

\* the seconds that have passed since the last failure
Elapsed == now - breaker.last_failure_time

\* the step is the synchronous part of a call(): only it adds one to
\* total_calls
CallBegins == breaker'.total_calls = breaker.total_calls + 1

\* the step is a reset()
IsReset == ret' = Append(ret, "reset")

\* a call on an open circuit less than recovery_timeout seconds after the
\* last failure raises at once and changes total_calls only
FailsFast ==
    (/\ breaker.state = "open"
     /\ breaker.last_failure_time # NoTime
     /\ Elapsed < breaker.recovery_timeout
     /\ CallBegins)
    => /\ ret' = Append(ret, "rejected")
       /\ pc' = pc
       /\ breaker' = [breaker EXCEPT !.total_calls = @ + 1]

\* C25: while the circuit is open and fewer than recovery_timeout seconds
\* have passed since last_failure_time, call() raises without invoking the
\* wrapped function and leaves state, failure_count, success_count and
\* last_failure_time as they were; only total_calls grows, by one.
C25_OpenFailsFast == [][FailsFast]_vars

\* the case of C25 where a call was just failed fast on a circuit that
\* opened at the second failure, in the same second
C25_RejectedInTheSameSecond ==
    /\ Len(ret) = 3
    /\ ret[1] = "failure" /\ ret[2] = "failure" /\ ret[3] = "rejected"
    /\ breaker.state = "open"
    /\ breaker.failure_count = 2
    /\ breaker.last_failure_time = now
    /\ breaker.total_calls = 3
    /\ pc = 0

\* a call on an open circuit at least recovery_timeout seconds after the
\* last failure makes it half-open and reaches the wrapped function
TrialCall ==
    (/\ breaker.state = "open"
     /\ breaker.last_failure_time # NoTime
     /\ Elapsed >= breaker.recovery_timeout
     /\ CallBegins)
    => /\ breaker'.state = "half_open"
       /\ pc' = pc + 1

\* the only call in flight, the trial call of a half-open circuit, returns:
\* a success closes the circuit with failure_count 0, a failure opens it
TrialVerdict ==
    (breaker.state = "half_open" /\ pc = 1 /\ pc' = 0) =>
        /\ ret' = Append(ret, "success") =>
               breaker'.state = "closed" /\ breaker'.failure_count = 0
        /\ ret' = Append(ret, "failure") => breaker'.state = "open"

\* C26: a call() on an open circuit at least recovery_timeout seconds after
\* last_failure_time moves it to half-open and invokes the wrapped function;
\* a success then closes it with failure_count 0, and an expected_exception
\* opens it again and is re-raised.
C26_TrialCallAfterTimeout == [][TrialCall /\ TrialVerdict]_vars

\* C27: apart from reset(), an open circuit changes state only by a call()
\* made once recovery_timeout has passed since the last failure, and then to
\* half-open: no step takes it from open to closed.
C27_OpenLeavesByTrialCallOnly ==
    [][(breaker.state = "open" /\ breaker'.state # "open" /\ ~IsReset) =>
           /\ CallBegins
           /\ Elapsed >= breaker.recovery_timeout
           /\ breaker'.state = "half_open"]_vars

----------------------------------------------------------------------------
(* summarize_video step by step, with the progress record it writes        *)
(* (api/routers/summarize.py).  In this specification content holds the    *)
(* request and what the services outside the router do with it, pc the     *)
(* place of the handler, ret the response or the HTTP error it ends with,  *)
(* and progress the data stored for its task_id.  Every write succeeds.    *)

\* raise HTTPException(status_code=400, ...)
Http400 == [status |-> 400]

\* the data written by set_progress
progress_data(percent, stage, status) ==
    [progress |-> percent, stage |-> stage, status |-> status]

\* what get_video_data_parallel gives: a transcript of a video that is short
\* enough, a video over two hours, no transcript, or an exception
VideoData == {"ok", "too_long", "no_transcript", "raises"}

\* the transcripts of the videos that have one
Transcripts == {Doc({1, 2, 3}, 1, "bare"), Doc({1, 3, 10, 11}, 2, "fence")}

Requests ==
    [url_valid : BOOLEAN, video_data : VideoData, transcript : Transcripts,
     response_valid : BOOLEAN]

InitProgress ==
    /\ content \in Requests
    /\ fault \in Faults
    /\ is_gumloop \in BOOLEAN
    /\ llm \in LlmResults
    /\ pc = "called"
    /\ ret = None
    /\ breaker = None
    /\ now = 0
    /\ progress = None
    /\ quota_tracker = None

\* lines 41-47: the first write
BeginTracking ==
    /\ pc = "called"
    /\ progress' = progress_data(5, "Initializing...", "processing")
    /\ pc' = "tracking"
    /\ UNCHANGED <<content, fault, is_gumloop, llm, ret, breaker, now, quota_tracker>>

\* lines 50-59: no video id in the URL
RejectUrl ==
    /\ pc = "tracking"
    /\ ~content.url_valid
    /\ progress' = progress_data(0, "Error: Invalid YouTube URL", "error")
    /\ ret' = Http400
    /\ pc' = "http_exception"
    /\ UNCHANGED <<content, fault, is_gumloop, llm, breaker, now, quota_tracker>>

\* lines 62-68
StartFetch ==
    /\ pc = "tracking"
    /\ content.url_valid
    /\ progress' = progress_data(25, "Fetching video data and transcript...", "processing")
    /\ pc' = "fetching"
    /\ UNCHANGED <<content, fault, is_gumloop, llm, ret, breaker, now, quota_tracker>>

\* lines 71-84: the video data arrive, or the call or a check raises
FetchVideo ==
    /\ pc = "fetching"
    /\ CASE content.video_data = "ok" -> pc' = "fetched" /\ ret' = ret
         [] content.video_data = "raises" -> pc' = "exception" /\ ret' = ret
         [] OTHER -> pc' = "http_exception" /\ ret' = Http400
    /\ UNCHANGED <<content, fault, is_gumloop, llm, breaker, now, progress, quota_tracker>>

\* lines 102-108
StartAnalysis ==
    /\ pc = "fetched"
    /\ progress' = progress_data(60, "Analyzing content with AI...", "processing")
    /\ pc' = "analyzing"
    /\ UNCHANGED <<content, fault, is_gumloop, llm, ret, breaker, now, quota_tracker>>

\* lines 111-272: the fields of the response, or an exception
Analyze ==
    /\ pc = "analyzing"
    /\ ret' = summarize_video(content.transcript, is_gumloop, fault, llm)
    /\ pc' = IF ret' = Http500 THEN "exception" ELSE "analyzed"
    /\ UNCHANGED <<content, fault, is_gumloop, llm, breaker, now, progress, quota_tracker>>

\* lines 275-281
Complete ==
    /\ pc = "analyzed"
    /\ progress' = progress_data(100, "Summary ready!", "completed")
    /\ pc' = "completed"
    /\ UNCHANGED <<content, fault, is_gumloop, llm, ret, breaker, now, quota_tracker>>

\* lines 286-317: the response model is built and returned, or its
\* validation raises
Respond ==
    /\ pc = "completed"
    /\ pc' = IF content.response_valid THEN "returned" ELSE "exception"
    /\ UNCHANGED <<content, fault, is_gumloop, llm, ret, breaker, now, progress, quota_tracker>>

\* a faulty variant: the handler raises without recording the error
on_exception_unrecorded(data, detail) == data

\* the data after either except clause
on_exception(data, detail) == progress_data(0, "Error: " \o detail, "error")

\* lines 319-328: except HTTPException
OnHTTPException ==
    /\ pc = "http_exception"
    /\ progress' = on_exception(progress, "bad request")
    /\ pc' = "raised"
    /\ UNCHANGED <<content, fault, is_gumloop, llm, ret, breaker, now, quota_tracker>>

\* lines 329-338: except Exception
OnException ==
    /\ pc = "exception"
    /\ progress' = on_exception(progress, "unexpected")
    /\ ret' = Http500
    /\ pc' = "raised"
    /\ UNCHANGED <<content, fault, is_gumloop, llm, breaker, now, quota_tracker>>

NextProgress ==
    \/ BeginTracking
    \/ RejectUrl
    \/ StartFetch
    \/ FetchVideo
    \/ StartAnalysis
    \/ Analyze
    \/ Complete
    \/ Respond
    \/ OnHTTPException
    \/ OnException

SpecProgress == InitProgress /\ [][NextProgress]_vars

\* the handler has returned a response, or raised an HTTP error
Returned == pc = "returned"
HttpErrorRaised == pc = "raised"

----------------------------------------------------------------------------
(* ProgressStorage.update_progress called by several coroutines for one    *)
(* task_id (api/services/progress_storage.py).  In this specification      *)
(* content[i] holds the updates of call i, pc[i] its place, ret[i] its     *)
(* local `current`, and progress the data of the row, None when there is   *)
(* no row.  The database answers every statement.                          *)

MaxUpdaters == 2

Updaters == 1..MaxUpdaters

\* the keys the calls may write
UpdateKeys == {"progress", "stage", "status"}

\* the updates call i may carry: it writes the value i under one or two keys
UpdatesOf(i) ==
    {[k \in K |-> i] : K \in {S \in SUBSET UpdateKeys : Cardinality(S) \in 1..2}}

\* current.update(updates)
dict_update(current, updates) ==
    [k \in DOMAIN current \cup DOMAIN updates |->
        IF k \in DOMAIN updates THEN updates[k] ELSE current[k]]

InitUpdates ==
    /\ content \in {c \in [Updaters -> UNION {UpdatesOf(i) : i \in Updaters}] :
                       \A i \in Updaters : c[i] \in UpdatesOf(i)}
    /\ fault = "none"
    /\ is_gumloop = FALSE
    /\ llm = None
    /\ pc = [i \in Updaters |-> "called"]
    /\ ret = [i \in Updaters |-> None]
    /\ breaker = None
    /\ now = 0
    /\ progress \in {None, [task_id |-> "t"]}
    /\ quota_tracker = None

\* line 166: current = await self.get_progress(task_id)
GetProgress(i) ==
    /\ pc[i] = "called"
    /\ ret' = [ret EXCEPT ![i] = progress]
    /\ pc' = [pc EXCEPT ![i] = "read"]
    /\ UNCHANGED inputs

\* lines 167-172: the data handed to set_progress
written(current, updates) ==
    IF current # None THEN dict_update(current, updates) ELSE updates

\* lines 169 and 172, with set_progress: the row is inserted or replaced
SetProgress(i) ==
    /\ pc[i] = "read"
    /\ progress' = written(ret[i], content[i])
    /\ pc' = [pc EXCEPT ![i] = "done"]
    /\ UNCHANGED <<content, fault, is_gumloop, llm, ret, breaker, now, quota_tracker>>

NextUpdates == \E i \in Updaters : GetProgress(i) \/ SetProgress(i)

SpecUpdates == InitUpdates /\ [][NextUpdates]_vars

\* every call has completed
AllUpdated == \A i \in Updaters : pc[i] = "done"

\* no call but i writes key k
OnlyWriter(i, k) == \A j \in Updaters \ {i} : k \notin DOMAIN content[j]

\* C29: after the update_progress calls on one task_id have completed, in
\* whatever order their steps ran, the stored data holds the value written
\* by each call for every key that no other call wrote.
C29_NoUpdateLost ==
    AllUpdated =>
        \A i \in Updaters : \A k \in DOMAIN content[i] :
            OnlyWriter(i, k) => k \in DOMAIN progress /\ progress[k] = content[i][k]

----------------------------------------------------------------------------
(* QuotaTracker, used by _api_call of _fetch_via_youtube_api               *)
(* (api/utils/quota_tracker.py, api/services/youtube_metadata_service.py). *)
(* Each YouTubeMetadataService runs its _api_call bodies on an executor    *)
(* of one thread; the services of different requests run theirs in         *)
(* parallel, on the one global tracker.  In this specification content[i]  *)
(* holds the service of fetch i, pc[i] the place of its _api_call, ret[i]  *)
(* the locals of its add_usage, and now the date.                          *)

MaxFetches == 3
MaxServices == 2

Fetches == 1..MaxFetches

\* daily_limit, small in place of 10000
DailyLimits == {4, 7}

\* the cost of videos.list with part='snippet'
ApiUnits == 3

\* __init__
QuotaTracker(daily_limit, today) ==
    [daily_limit |-> daily_limit, usage |-> [d \in {} |-> 0], last_reset |-> today]

\* str(today)
date_key(today) == ToString(today)

\* self.usage.get(key, 0)
usage_get(self, key) == IF key \in DOMAIN self.usage THEN self.usage[key] ELSE 0

get_remaining(self, today) == self.daily_limit - usage_get(self, date_key(today))

can_use(self, units, today) == get_remaining(self, today) >= units

\* add_usage, lines 30-36: a new day empties the usage
reset_if_new_day(self, today) ==
    IF today # self.last_reset
    THEN [self EXCEPT !.usage = [d \in {} |-> 0], !.last_reset = today]
    ELSE self

\* self.usage[key] = value
usage_set(self, key, value) ==
    [self EXCEPT !.usage = [d \in DOMAIN self.usage \cup {key} |->
                               IF d = key THEN value ELSE self.usage[d]]]

InitQuota ==
    /\ content \in [Fetches -> 1..MaxServices]
    /\ fault = "none"
    /\ is_gumloop = FALSE
    /\ llm = None
    /\ pc = [i \in Fetches |-> "queued"]
    /\ ret = [i \in Fetches |-> None]
    /\ breaker = None
    /\ now = 0
    /\ progress = None
    /\ \E daily_limit \in DailyLimits : quota_tracker = QuotaTracker(daily_limit, now)

\* the executor of the service of fetch i runs no other _api_call
ExecutorFree(i) ==
    \A j \in Fetches \ {i} :
        content[j] = content[i] => pc[j] \in {"queued", "done", "refused", "failed"}

\* lines 176-179: the thread takes up the call and asks the tracker
CanUse(i) ==
    /\ pc[i] = "queued"
    /\ ExecutorFree(i)
    /\ pc' = [pc EXCEPT ![i] = IF can_use(quota_tracker, ApiUnits, now)
                               THEN "allowed" ELSE "refused"]
    /\ UNCHANGED <<ret, inputs>>

\* lines 184-188: the request to the API, which answers or raises
ApiCall(i) ==
    /\ pc[i] = "allowed"
    /\ \E answered \in BOOLEAN :
           pc' = [pc EXCEPT ![i] = IF answered THEN "answered" ELSE "failed"]
    /\ UNCHANGED <<ret, inputs>>

\* add_usage, lines 30-40: the date is taken, a new day resets the usage,
\* and the usage of the day is read
AddUsageRead(i) ==
    /\ pc[i] = "answered"
    /\ quota_tracker' = reset_if_new_day(quota_tracker, now)
    /\ ret' = [ret EXCEPT ![i] =
                  [date_key |-> date_key(now),
                   used |-> usage_get(quota_tracker', date_key(now))]]
    /\ pc' = [pc EXCEPT ![i] = "adding"]
    /\ UNCHANGED <<content, fault, is_gumloop, llm, breaker, now, progress>>

\* add_usage, line 40: the sum is stored
AddUsageWrite(i) ==
    /\ pc[i] = "adding"
    /\ quota_tracker' = usage_set(quota_tracker, ret[i].date_key, ret[i].used + ApiUnits)
    /\ pc' = [pc EXCEPT ![i] = "done"]
    /\ UNCHANGED <<content, fault, is_gumloop, llm, ret, breaker, now, progress>>

\* the date changes
Midnight ==
    /\ now < MaxDays
    /\ now' = now + 1
    /\ UNCHANGED <<content, fault, is_gumloop, llm, pc, ret, breaker, progress,
                   quota_tracker>>

NextQuota ==
    \/ \E i \in Fetches : CanUse(i) \/ ApiCall(i) \/ AddUsageRead(i) \/ AddUsageWrite(i)
    \/ Midnight

SpecQuota == InitQuota /\ [][NextQuota]_vars

\* C30: the units recorded for the current day never exceed daily_limit
\* when every API call is made between can_use(units) and add_usage(units),
\* whatever the number of fetches that run at the same time.
C30_UsageWithinDailyLimit ==
    usage_get(quota_tracker, date_key(now)) <= quota_tracker.daily_limit

====
